---- MODULE Spec2Model ----
(***************************************************************************)
(* ArchHarness: the workspace adapter (src/adapters/repo/adapter.py), the  *)
(* role agents (src/agents/roles.py), the run control (src/harness/tui.py) *)
(* and the orchestrator run loop (src/harness/orchestrator.py).            *)
(*                                                                         *)
(* Text (paths, file contents, commands, diff output) is a sequence of     *)
(* one-character strings, so that globbing, splitting, sorting, diffing    *)
(* and substring search are computed and not assumed.                      *)
(***************************************************************************)
EXTENDS Integers, Sequences, FiniteSets, TLC

VARIABLES
    files,          \* the workspace directory: relative path -> bytes of the file
    baseline,       \* WorkspaceAdapter._baseline_snapshot
    allowlist,      \* WorkspaceAdapter.allowlist
    call,           \* the adapter call made last (none once the workspace is written to)
    captured,       \* history: capture_baseline has been called
    touched,        \* history: paths written or removed since the baseline was set
    commands,       \* config["commands"][format|lint|test]
    max_iterations, \* config["orchestration"]["maxIterations"]
    reviewer,       \* which Reviewer the orchestrator holds in self.architecture
    workflow,       \* argument of Orchestrator.run
    request,        \* the keyword arguments workspace_mode and project_name of the call
    paused,         \* RunControl._paused
    cancelled,      \* RunControl._cancelled
    cancelled_at,   \* history: when cancel() was first called ("never" at first)
    pc,             \* position of the run thread inside Orchestrator.run
    ckpt,           \* the checkpoint the run thread is at ("first" | "command" | "retry")
    run_log,        \* the in-memory run_log dictionary
    run_dir,        \* the files written in the run directory: name -> content
    events,         \* the lines of events.jsonl, in file order
    checks,         \* the local list checks
    key,            \* index into ["format", "lint", "test"]
    plan,           \* the Plan returned by the Planner
    build_result,   \* the last BuildResult
    review,         \* the last Review
    iterations,     \* the local counter iterations
    context_files,  \* the local list context_files
    writes,         \* history: the statuses written to run-log.json, in order
    trace,          \* history: the steps the run thread has taken, in order
    workspace_path, \* WorkspaceAdapter.workspace_path: the names of the absolute path
    dirs,           \* the directories that exist besides those the workspace files lie in
    event_sink,     \* argument of Orchestrator.run: a subscriber is attached
    emitted,        \* history: the message and data of each _emit_event call, in order
    delivered,      \* the events event_sink has been called with, in order
    epc,            \* position inside _emit_event ("idle" | "written")
    clock,          \* the time datetime.now returns, in ticks
    runs,           \* for each call of run: its position and its run directory
    runs_disk,      \* the run directories below .agent-harness/runs: name -> files
    threads,        \* for each thread that calls RunControl: its position and the
                    \* value is_cancelled returned to it last
    run_request,    \* the RunRequest validate is called on
    validation,     \* what validate did ("" before the call)
    slots,          \* ConversationController._slots
    history,        \* the number of entries of ConversationController._history
    user_text,      \* the text of the last process_message call
    reply,          \* what the last process_message call returned
    built,          \* what the last build_run_request call did
    event_queue,    \* the queue of _monitor_run: the events put and not yet taken
    displayed,      \* history: the events the monitor loop has printed, in order
    forwarded,      \* the number of events the run thread has called on_event with
    runner,         \* the thread of _runner: "running" until it exits
    mpc             \* position of the monitor inside _monitor_run

adapterVars == <<files, baseline, allowlist, call, captured, touched>>
configVars  == <<commands, max_iterations, reviewer, workflow, request>>
controlVars == <<paused, cancelled, cancelled_at>>
runVars     == <<pc, ckpt, run_log, run_dir, events, checks, key, plan,
                 build_result, review, iterations, context_files, writes, trace>>
projectVars == <<workspace_path, dirs>>
\* The variables that neither the run nor the adapter calls of a client change
emitVars    == <<event_sink, emitted, delivered, epc>>
runsVars    == <<clock, runs, runs_disk>>
threadVars  == <<threads>>
requestVars == <<run_request, validation>>
dialogueVars == <<slots, history, user_text, reply, built>>
monitorVars == <<event_queue, displayed, forwarded, runner, mpc>>
otherVars   == <<projectVars, emitVars, runsVars, threadVars, requestVars, dialogueVars,
                 monitorVars>>
vars == <<adapterVars, configVars, controlVars, runVars, otherVars>>

(***************************************************************************)
(* Bounds                                                                  *)
(***************************************************************************)
MaxIterBound == 2      \* maxIterations ranges over 0..MaxIterBound

(***************************************************************************)
(* Text helpers                                                            *)
(***************************************************************************)
\* Characters in ascending code point order (Python compares str by code point).
CodePoints ==
    <<" ", "!", "'", "*", "+", ",", "-", ".", "/", "0", "1", "2", "3", "4",
      "5", "6", "7", "8", "9", "@", "D", "E", "F", "I", "M", "O", "R", "T",
      "U", "Z", "a", "b", "c", "d", "e", "f", "g", "h", "i", "j", "k", "l",
      "m", "n", "o", "p", "r", "s", "t", "u", "v", "w", "x", "y", "z">>

Ord(c) == CHOOSE i \in 1..Len(CodePoints) : CodePoints[i] = c

\* s < t in Python's ordering of str
RECURSIVE StrLess(_, _)
StrLess(s, t) ==
    IF t = <<>> THEN FALSE
    ELSE IF s = <<>> THEN TRUE
    ELSE IF Head(s) = Head(t) THEN StrLess(Tail(s), Tail(t))
    ELSE Ord(Head(s)) < Ord(Head(t))

\* sorted(S) for a set of str
RECURSIVE sorted(_)
sorted(S) ==
    IF S = {} THEN <<>>
    ELSE LET m == CHOOSE x \in S : \A y \in S \ {x} : StrLess(x, y)
         IN  <<m>> \o sorted(S \ {m})

\* sub in s
Contains(s, sub) ==
    \E i \in 0..(Len(s) - Len(sub)) : SubSeq(s, i + 1, i + Len(sub)) = sub

RECURSIVE Flatten(_)
Flatten(ss) == IF ss = <<>> THEN <<>> ELSE Head(ss) \o Flatten(Tail(ss))

\* "\n".join(lines) + ("\n" if lines else "")
JoinLines(lines) == Flatten([i \in 1..Len(lines) |-> lines[i] \o <<"\n">>])

Range(f) == {f[i] : i \in DOMAIN f}

(***************************************************************************)
(* Workspace contents                                                      *)
(***************************************************************************)
FileTxt   == <<"f", "i", "l", "e", ".", "t", "x", "t">>
SrcAppPy  == <<"s", "r", "c", "/", "a", "p", "p", ".", "p", "y">>
LibBPy    == <<"l", "i", "b", "/", "b", ".", "p", "y">>
EventsLog == <<".", "a", "g", "e", "n", "t", "-", "h", "a", "r", "n", "e", "s",
               "s", "/", "r", "u", "n", "s", "/", "T", "0", "/", "e", "v", "e",
               "n", "t", "s", ".", "j", "s", "o", "n", "l">>
Paths == {FileTxt, SrcAppPy, LibBPy, EventsLog}

\* File contents are bytes; "xFE" and "xFF" stand for two bytes that are not
\* valid UTF-8.  Every content has at most one line.
Sample == <<"s", "a", "m", "p", "l", "e">>
Todo   == <<"T", "O", "D", "O">>
Contents == {<<>>, Sample, Todo, <<"xFE">>, <<"xFF">>}

\* The contents the environment writes to a path
ContentsOf(p) ==
    IF p = SrcAppPy THEN Contents \ {Sample}
    ELSE IF p = LibBPy THEN {Todo}
    ELSE {Sample}

\* The paths that are written to or removed after the workspace was set up
Writable == Paths \ {FileTxt}

\* A workspace as the tests set it up: one file file.txt holding "sample"
TestWorkspace == [p \in {FileTxt} |-> Sample]

\* fs with bytes c at path p
WithFile(fs, p, c) == [q \in DOMAIN fs \cup {p} |-> IF q = p THEN c ELSE fs[q]]

\* fs without path p
WithoutFile(fs, p) == [q \in DOMAIN fs \ {p} |-> fs[q]]

\* hashlib.sha256(data).hexdigest(): distinct inputs give distinct digests
sha256(data) == <<"sha256">> \o data

\* data.decode("utf-8", errors="replace")
decode(data) ==
    [i \in DOMAIN data |-> IF data[i] \in {"xFE", "xFF"} THEN "uFFFD" ELSE data[i]]

\* text.splitlines(keepends=True), for text of at most one line
splitlines(text) == IF text = <<>> THEN <<>> ELSE <<text>>

(***************************************************************************)
(* WorkspaceAdapter                                                        *)
(***************************************************************************)
include_globs == {<<"*", "*", "/", "*">>}
exclude_globs == {<<".", "a", "g", "e", "n", "t", "-", "h", "a", "r", "n", "e",
                    "s", "s", "/", "*", "*">>}

\* fnmatch.fnmatch(name, pat): "*" matches any run of characters, "/" included
RECURSIVE fnmatchFrom(_, _, _, _)
fnmatchFrom(name, pat, i, j) ==
    IF j > Len(pat) THEN i > Len(name)
    ELSE IF pat[j] = "*"
         THEN \/ fnmatchFrom(name, pat, i, j + 1)
              \/ (i <= Len(name) /\ fnmatchFrom(name, pat, i + 1, j))
    ELSE IF pat[j] = "?"
         THEN i <= Len(name) /\ fnmatchFrom(name, pat, i + 1, j + 1)
    ELSE i <= Len(name) /\ name[i] = pat[j] /\ fnmatchFrom(name, pat, i + 1, j + 1)

fnmatch(name, pat) == fnmatchFrom(name, pat, 1, 1)

_is_included(rel_path) ==
    LET included == \E pattern \in include_globs : fnmatch(rel_path, pattern)
        excluded == \E pattern \in exclude_globs : fnmatch(rel_path, pattern)
    IN  included /\ ~excluded

Included == {p \in Paths : _is_included(p)}

_snapshot(fs) ==
    [rel \in (DOMAIN fs) \cap Included |->
        [hash |-> sha256(fs[rel]), text |-> decode(fs[rel])]]

list_files(fs) == sorted(DOMAIN _snapshot(fs))

\* dict.get(rel): <<>> stands for None, <<entry>> for an entry
get(snapshot, rel) == IF rel \in DOMAIN snapshot THEN <<snapshot[rel]>> ELSE <<>>

\* dict.get(rel, {}).get("hash")
get_hash(snapshot, rel) ==
    IF rel \in DOMAIN snapshot THEN <<snapshot[rel].hash>> ELSE <<>>

\* (entry or {}).get("text", "")
get_text(snapshot, rel) ==
    IF rel \in DOMAIN snapshot THEN snapshot[rel].text ELSE <<>>

\* difflib.unified_diff(before, after, fromfile, tofile, lineterm=""), for
\* sides of at most one line each
unified_diff(before, after, fromfile, tofile) ==
    IF before = after THEN <<>>
    ELSE <<<<"-", "-", "-", " ">> \o fromfile, <<"+", "+", "+", " ">> \o tofile>>
         \o (IF before = <<>>
               THEN <<<<"@", "@", " ", "-", "0", ",", "0", " ", "+", "1", " ", "@", "@">>>>
             ELSE IF after = <<>>
               THEN <<<<"@", "@", " ", "-", "1", " ", "+", "0", ",", "0", " ", "@", "@">>>>
             ELSE <<<<"@", "@", " ", "-", "1", " ", "+", "1", " ", "@", "@">>>>)
         \o [i \in 1..Len(before) |-> <<"-">> \o before[i]]
         \o [i \in 1..Len(after) |-> <<"+">> \o after[i]]

RECURSIVE diffLines(_, _, _)
diffLines(base, current, changed) ==
    IF changed = <<>> THEN <<>>
    ELSE LET rel == Head(changed)
             hunk == IF get(base, rel) = get(current, rel) THEN <<>>
                     ELSE unified_diff(splitlines(get_text(base, rel)),
                                       splitlines(get_text(current, rel)),
                                       <<"a", "/">> \o rel, <<"b", "/">> \o rel)
         IN  hunk \o diffLines(base, current, Tail(changed))

diff(base, fs) ==
    LET current == _snapshot(fs)
        changed == sorted(DOMAIN base \cup DOMAIN current)
    IN  JoinLines(diffLines(base, current, changed))

\* changed_files comparing the decoded text where the code compares the hash
changed_files_by_text(base, fs) ==
    LET current == _snapshot(fs)
        changed == sorted(DOMAIN base \cup DOMAIN current)
    IN  SelectSeq(changed, LAMBDA rel : get_text(base, rel) # get_text(current, rel))

changed_files(base, fs) ==
    LET current == _snapshot(fs)
        changed == sorted(DOMAIN base \cup DOMAIN current)
    IN  SelectSeq(changed, LAMBDA rel : get_hash(base, rel) # get_hash(current, rel))

(***************************************************************************)
(* WorkspaceAdapter.run_command                                            *)
(***************************************************************************)
\* The value None of a configured command (a text never has this element)
None == <<"None">>

Fmt      == <<"f", "m", "t">>
FmtFix   == <<"f", "m", "t", " ", "-", "-", "f", "i", "x">>
UsrBinRm == <<"/", "u", "s", "r", "/", "b", "i", "n", "/", "r", "m", " ", "x">>
Blank    == <<" ">>
Unclosed == <<"'", "o", "o", "p", "s">>
Commands == {None, <<>>, Blank, FmtFix, UsrBinRm, Unclosed}
Allowlists == {<<>>, <<Fmt>>}

\* shlex.split(command): the words of the command; a single quote starts a
\* quoted part that runs to the next single quote; ok is FALSE where
\* shlex raises ValueError("No closing quotation")
RECURSIVE shlexFrom(_, _, _, _, _, _)
shlexFrom(s, i, tok, intok, inq, acc) ==
    IF i > Len(s)
      THEN [ok |-> ~inq, argv |-> IF intok THEN Append(acc, tok) ELSE acc]
    ELSE IF inq
      THEN IF s[i] = "'" THEN shlexFrom(s, i + 1, tok, TRUE, FALSE, acc)
           ELSE shlexFrom(s, i + 1, Append(tok, s[i]), TRUE, TRUE, acc)
    ELSE IF s[i] = "'" THEN shlexFrom(s, i + 1, tok, TRUE, TRUE, acc)
    ELSE IF s[i] = " "
      THEN shlexFrom(s, i + 1, <<>>, FALSE, FALSE,
                     IF intok THEN Append(acc, tok) ELSE acc)
    ELSE shlexFrom(s, i + 1, Append(tok, s[i]), TRUE, FALSE, acc)

shlex_split(command) == shlexFrom(command, 1, <<>>, FALSE, FALSE, <<>>)

\* Path(arg).name: the part after the last "/"
RECURSIVE path_name(_)
path_name(arg) ==
    IF arg = <<>> THEN <<>>
    ELSE IF arg[Len(arg)] = "/" THEN <<>>
    ELSE Append(path_name(SubSeq(arg, 1, Len(arg) - 1)), arg[Len(arg)])

\* What subprocess.run can do with argv: the process exits with a code, or
\* the call raises because the executable does not exist or argv is empty
SpawnOutcomes(argv) ==
    IF argv = <<>> THEN {"IndexError"} ELSE {"exit0", "exit1", "FileNotFoundError"}

\* run_command with the allowlist test the wrong way round
run_command_inverted(command, allow) ==
    IF command = None \/ command = <<>>
      THEN [do |-> "return", argv |-> <<>>,
            result |-> [command |-> command, skipped |-> TRUE, returncode |-> <<>>,
                        stdout |-> "", stderr |-> ""]]
    ELSE LET split == shlex_split(command)
             cmd == split.argv
             first == IF cmd # <<>> THEN path_name(cmd[1]) ELSE <<>>
         IN  IF ~split.ok
               THEN [do |-> "raise", argv |-> <<>>, error |-> "ValueError"]
             ELSE IF allow # <<>> /\ first \in Range(allow)
               THEN [do |-> "return", argv |-> cmd,
                     result |-> [command |-> command, skipped |-> TRUE,
                                 returncode |-> <<>>, stdout |-> "",
                                 stderr |-> "Command not allowlisted"]]
             ELSE [do |-> "spawn", argv |-> cmd]

\* run_command up to the call of subprocess.run: what it does with the
\* command, and the CommandResult where it returns without a process
run_command(command, allow) ==
    IF command = None \/ command = <<>>
      THEN [do |-> "return", argv |-> <<>>,
            result |-> [command |-> command, skipped |-> TRUE, returncode |-> <<>>,
                        stdout |-> "", stderr |-> ""]]
    ELSE LET split == shlex_split(command)
             cmd == split.argv
             first == IF cmd # <<>> THEN path_name(cmd[1]) ELSE <<>>
         IN  IF ~split.ok
               THEN [do |-> "raise", argv |-> <<>>, error |-> "ValueError"]
             ELSE IF allow # <<>> /\ first \notin Range(allow)
               THEN [do |-> "return", argv |-> cmd,
                     result |-> [command |-> command, skipped |-> TRUE,
                                 returncode |-> <<>>, stdout |-> "",
                                 stderr |-> "Command not allowlisted"]]
             ELSE [do |-> "spawn", argv |-> cmd]

\* The record of one run_command call, given what subprocess.run did
run_command_call(command, allow, outcome) ==
    LET rc == run_command(command, allow)
    IN  IF rc.do = "return"
          THEN [op |-> "run_command", command |-> command, spawn |-> FALSE,
                raised |-> "", result |-> <<rc.result>>]
        ELSE IF rc.do = "raise"
          THEN [op |-> "run_command", command |-> command, spawn |-> FALSE,
                raised |-> rc.error, result |-> <<>>]
        ELSE IF outcome \in {"exit0", "exit1"}
          THEN [op |-> "run_command", command |-> command, spawn |-> TRUE,
                raised |-> "",
                result |-> <<[command |-> command, skipped |-> FALSE,
                              returncode |-> <<IF outcome = "exit0" THEN 0 ELSE 1>>,
                              stdout |-> "out", stderr |-> "err"]>>]
        ELSE [op |-> "run_command", command |-> command, spawn |-> TRUE,
              raised |-> outcome, result |-> <<>>]

\* The outcomes subprocess.run can have for a command (one dummy outcome
\* where run_command does not reach subprocess.run)
OutcomesOf(command, allow) ==
    LET rc == run_command(command, allow)
    IN  IF rc.do = "spawn" THEN SpawnOutcomes(rc.argv) ELSE {"none"}

(***************************************************************************)
(* The state before a run: RunControl.__init__, and an orchestrator that   *)
(* has not been asked to run                                               *)
(***************************************************************************)
NoRun ==
    /\ commands = <<None, None, None>>
    /\ max_iterations = 0
    /\ reviewer = "stock"
    /\ workflow = "frontend_feature"
    /\ request = <<>>
    /\ paused = FALSE
    /\ cancelled = FALSE
    /\ cancelled_at = "never"
    /\ pc = "idle"
    /\ ckpt = "first"
    /\ run_log = [status |-> "none", toolCalls |-> <<>>]
    /\ run_dir = <<>>
    /\ events = <<>>
    /\ checks = <<>>
    /\ key = 1
    /\ plan = <<>>
    /\ build_result = <<>>
    /\ review = <<>>
    /\ iterations = 0
    /\ context_files = <<>>
    /\ writes = <<>>
    /\ trace = <<>>

\* The directory the adapter is constructed on: /w
Root == <<<<"w">>>>

\* The path and its parents
Parents(path) == {SubSeq(path, 1, n) : n \in 0..Len(path)}

\* str(path) of an absolute path
str(path) ==
    IF path = <<>> THEN <<"/">>
    ELSE Flatten([i \in 1..Len(path) |-> <<"/">> \o path[i]])

\* The adapter as __init__ leaves it on an existing directory
NoProject ==
    /\ workspace_path = Root
    /\ dirs = Parents(Root)

\* The calls of run that are told apart where several are made
Runs == {1, 2}

\* No call of run made and no run directory on disk
NoRuns ==
    /\ clock = 0
    /\ runs = [r \in Runs |-> [pc |-> "idle", run_dir |-> <<>>]]
    /\ runs_disk = <<>>

\* The threads that hold the RunControl: the monitor loop and the run thread
Threads == {"monitor", "run"}

\* No thread inside a RunControl method
NoThreads == threads = [t \in Threads |-> [pc |-> "idle", is_cancelled |-> <<>>]]

\* No RunRequest made
NoRequest ==
    /\ run_request = <<>>
    /\ validation = ""

\* The controller as __init__ leaves it, before any message
NoDialogue ==
    /\ slots = <<>>
    /\ history = 0
    /\ user_text = <<>>
    /\ reply = <<>>
    /\ built = <<>>

\* No run is being monitored
NoMonitor ==
    /\ event_queue = <<>>
    /\ displayed = <<>>
    /\ forwarded = 0
    /\ runner = "running"
    /\ mpc = "alive"

\* A run without a subscriber (event_sink=None) that has emitted nothing
NoEmit ==
    /\ event_sink = FALSE
    /\ emitted = <<>>
    /\ delivered = <<>>
    /\ epc = "idle"

(***************************************************************************)
(* The adapter on its own: a client calls its methods in any order while   *)
(* the workspace is written to                                             *)
(***************************************************************************)
AdapterInit ==
    /\ files = TestWorkspace
    /\ baseline = <<>>
    /\ allowlist \in Allowlists
    /\ call = [op |-> "__init__"]
    /\ captured = FALSE
    /\ touched = {}
    /\ NoRun
    /\ NoProject
    /\ NoEmit
    /\ NoRuns
    /\ NoThreads
    /\ NoRequest
    /\ NoDialogue
    /\ NoMonitor

WriteFile(p, c) ==
    /\ IF p \in DOMAIN files THEN files[p] # c ELSE TRUE
    /\ files' = WithFile(files, p, c)
    /\ touched' = touched \cup {p}
    /\ call' = [op |-> "none"]
    /\ UNCHANGED <<baseline, allowlist, captured>>
    /\ UNCHANGED <<configVars, otherVars, controlVars, runVars>>

RemoveFile(p) ==
    /\ p \in DOMAIN files
    /\ files' = WithoutFile(files, p)
    /\ touched' = touched \cup {p}
    /\ call' = [op |-> "none"]
    /\ UNCHANGED <<baseline, allowlist, captured>>
    /\ UNCHANGED <<configVars, otherVars, controlVars, runVars>>

capture_baseline ==
    /\ baseline' = _snapshot(files)
    /\ captured' = TRUE
    /\ touched' = {}
    /\ call' = [op |-> "capture_baseline"]
    /\ UNCHANGED <<files, allowlist>>
    /\ UNCHANGED <<configVars, otherVars, controlVars, runVars>>

ListFilesCall ==
    /\ call' = [op |-> "list_files", result |-> list_files(files)]
    /\ UNCHANGED <<files, baseline, allowlist, captured, touched>>
    /\ UNCHANGED <<configVars, otherVars, controlVars, runVars>>

\* diff() that takes the current snapshot as the new baseline
DiffCall_recaptures ==
    /\ call' = [op |-> "diff", result |-> diff(baseline, files)]
    /\ baseline' = _snapshot(files)
    /\ UNCHANGED <<files, allowlist, captured, touched>>
    /\ UNCHANGED <<configVars, otherVars, controlVars, runVars>>

DiffCall ==
    /\ call' = [op |-> "diff", result |-> diff(baseline, files)]
    /\ UNCHANGED <<files, baseline, allowlist, captured, touched>>
    /\ UNCHANGED <<configVars, otherVars, controlVars, runVars>>

ChangedFilesCall ==
    /\ call' = [op |-> "changed_files", result |-> changed_files(baseline, files)]
    /\ UNCHANGED <<files, baseline, allowlist, captured, touched>>
    /\ UNCHANGED <<configVars, otherVars, controlVars, runVars>>

RunCommandCall(command, outcome) ==
    /\ call' = run_command_call(command, allowlist, outcome)
    /\ UNCHANGED <<files, baseline, allowlist, captured, touched>>
    /\ UNCHANGED <<configVars, otherVars, controlVars, runVars>>

AdapterNext ==
    \/ \E p \in Writable : \E c \in ContentsOf(p) : WriteFile(p, c)
    \/ \E p \in Writable : RemoveFile(p)
    \/ capture_baseline
    \/ ListFilesCall
    \/ DiffCall
    \/ ChangedFilesCall
    \/ \E command \in Commands :
         \E outcome \in OutcomesOf(command, allowlist) :
            RunCommandCall(command, outcome)

SpecAdapter == AdapterInit /\ [][AdapterNext]_vars

(***************************************************************************)
(* WorkspaceAdapter.initialize_project                                     *)
(***************************************************************************)
MaxDepth == 3      \* the working root is re-pointed while it has fewer names

App        == <<"a", "p", "p">>
AB         == <<"a", "/", "b">>
AppUp      == <<"a", "p", "p", "/", ".", ".">>
DotDotEsc  == <<".", ".", "/", "e", "s", "c">>
AppUpUpEsc == <<"a", "p", "p", "/", ".", ".", "/", ".", ".", "/", "e", "s", "c">>
SlashEtc   == <<"/", "e", "t", "c">>
DotDotW2   == <<".", ".", "/", "w", "2">>
ProjectNames == {None, <<>>, App, AB, AppUp, DotDotEsc, AppUpUpEsc, SlashEtc, DotDotW2}

\* The names of a path text: the non-empty parts between "/"
RECURSIVE partsFrom(_, _, _)
partsFrom(text, i, cur) ==
    IF i > Len(text) THEN (IF cur = <<>> THEN <<>> ELSE <<cur>>)
    ELSE IF text[i] = "/"
      THEN (IF cur = <<>> THEN <<>> ELSE <<cur>>) \o partsFrom(text, i + 1, <<>>)
    ELSE partsFrom(text, i + 1, Append(cur, text[i]))

parts(text) == partsFrom(text, 1, <<>>)

\* base / name: an absolute name replaces the base
truediv(base, name) ==
    IF name # <<>> /\ name[1] = "/" THEN parts(name) ELSE base \o parts(name)

\* Path.resolve() where no name is a symbolic link: "." is dropped and ".."
\* drops the name before it (the parent of "/" is "/")
RECURSIVE resolveFrom(_, _, _)
resolveFrom(path, i, acc) ==
    IF i > Len(path) THEN acc
    ELSE IF path[i] = <<".">> THEN resolveFrom(path, i + 1, acc)
    ELSE IF path[i] = <<".", ".">>
      THEN resolveFrom(path, i + 1,
                       IF acc = <<>> THEN acc ELSE SubSeq(acc, 1, Len(acc) - 1))
    ELSE resolveFrom(path, i + 1, Append(acc, path[i]))

resolve(path) == resolveFrom(path, 1, <<>>)

\* target.relative_to(base) does not raise ValueError: the names of base are
\* the first names of target
relative_to(target, base) ==
    Len(base) <= Len(target) /\ SubSeq(target, 1, Len(base)) = base

\* What exists below the root: the directories made, the files of the
\* workspace and the directories these lie in
Existing(root, made, fs) ==
    made \cup UNION {Parents(root \o parts(rel)) : rel \in DOMAIN fs}

\* initialize_project that makes the directory and re-points the root without
\* testing where the target lies
initialize_project_unchecked(project_name, root, existing) ==
    IF project_name # None /\ project_name # <<>>
      THEN LET target == resolve(truediv(root, project_name))
           IN  IF target \in existing
                 THEN [raised |-> "FileExistsError", workspace_path |-> root,
                       mkdir |-> {}, capture |-> FALSE]
               ELSE [raised |-> "", workspace_path |-> target,
                     mkdir |-> Parents(target), capture |-> TRUE]
    ELSE [raised |-> "", workspace_path |-> root, mkdir |-> Parents(root),
          capture |-> TRUE]

\* initialize_project up to capture_baseline: the exception raised ("" for
\* none), the working root afterwards, the directories mkdir makes and
\* whether capture_baseline is reached
initialize_project(project_name, root, existing) ==
    IF project_name # None /\ project_name # <<>>
      THEN LET target == resolve(truediv(root, project_name))
           IN  IF ~relative_to(target, root)
                 THEN [raised |-> "ValueError", workspace_path |-> root,
                       mkdir |-> {}, capture |-> FALSE]
               ELSE IF target \in existing
                 THEN [raised |-> "FileExistsError", workspace_path |-> root,
                       mkdir |-> {}, capture |-> FALSE]
               ELSE [raised |-> "", workspace_path |-> target,
                     mkdir |-> Parents(target), capture |-> TRUE]
    ELSE [raised |-> "", workspace_path |-> root, mkdir |-> Parents(root),
          capture |-> TRUE]

ProjectInit ==
    /\ files = TestWorkspace
    /\ baseline = <<>>
    /\ allowlist = <<>>
    /\ call = [op |-> "__init__"]
    /\ captured = FALSE
    /\ touched = {}
    /\ NoRun
    /\ NoProject
    /\ NoEmit
    /\ NoRuns
    /\ NoThreads
    /\ NoRequest
    /\ NoDialogue
    /\ NoMonitor

\* initialize_project(project_name); a new working root is an empty directory
InitializeProjectCall(project_name) ==
    LET r == initialize_project(project_name, workspace_path,
                                Existing(workspace_path, dirs, files))
        fs == IF r.workspace_path = workspace_path THEN files ELSE <<>>
    IN  /\ Len(r.workspace_path) <= MaxDepth
        /\ workspace_path' = r.workspace_path
        /\ dirs' = dirs \cup r.mkdir
        /\ files' = fs
        /\ baseline' = IF r.capture THEN _snapshot(fs) ELSE baseline
        /\ captured' = (captured \/ r.capture)
        /\ touched' = IF r.capture THEN {} ELSE touched
        /\ call' = [op |-> "initialize_project", project_name |-> project_name,
                    raised |-> r.raised]
        /\ UNCHANGED allowlist
        /\ UNCHANGED <<configVars, controlVars, runVars, emitVars, runsVars,
                   threadVars, requestVars, dialogueVars, monitorVars>>

\* The branch names git rev-parse prints; None where it fails or prints nothing
Branches == {None, <<"m", "a", "i", "n">>}

\* metadata() of WorkspaceAdapter and of GitWorkspaceAdapter
metadata(is_git, branch, path) ==
    [isGit |-> is_git, branch |-> IF is_git THEN branch ELSE None,
     workspacePath |-> str(path)]

MetadataCall(is_git, branch) ==
    /\ call' = [op |-> "metadata", result |-> metadata(is_git, branch, workspace_path)]
    /\ UNCHANGED <<files, baseline, allowlist, captured, touched>>
    /\ UNCHANGED <<configVars, otherVars, controlVars, runVars>>

ProjectNext ==
    \/ \E c \in ContentsOf(SrcAppPy) : WriteFile(SrcAppPy, c)
    \/ capture_baseline
    \/ \E project_name \in ProjectNames : InitializeProjectCall(project_name)
    \/ ListFilesCall
    \/ DiffCall
    \/ ChangedFilesCall
    \/ \E command \in Commands :
         \E outcome \in OutcomesOf(command, allowlist) :
            RunCommandCall(command, outcome)
    \/ \E is_git \in BOOLEAN : \E branch \in Branches : MetadataCall(is_git, branch)

SpecProject == ProjectInit /\ [][ProjectNext]_vars

(***************************************************************************)
(* Role agents (src/agents/roles.py)                                       *)
(***************************************************************************)
RemoveTodo == "Remove TODO markers and complete implementation details."

\* FrontendAgent.plan
frontend_plan(ctx_files) ==
    [filesToTouch |-> SubSeq(ctx_files, 1, IF Len(ctx_files) < 5 THEN Len(ctx_files) ELSE 5)]

\* BuilderAgent.implement(plan, review_actions)
builder_implement(p, review_actions) ==
    [filesTouched |-> p.filesToTouch, appliedActions |-> review_actions]

Finding(severity, files_touched) ==
    [severity |-> severity, rule |-> "Structural quality",
     file |-> IF files_touched # <<>> THEN <<files_touched[1]>> ELSE <<>>]

\* ArchitectureAgent.review(diff_text, files_touched, applied_actions)
architecture_review(diff_text, files_touched, applied_actions) ==
    LET findings == IF Contains(diff_text, Todo) /\ RemoveTodo \notin Range(applied_actions)
                      THEN <<Finding("high", files_touched)>>
                    ELSE <<>>
    IN  [findings |-> findings,
         requiredActions |-> IF findings # <<>> THEN <<RemoveTodo>> ELSE <<>>]

\* The Reviews self.architecture.review can return: the one of the stock
\* ArchitectureAgent, or any Review where another Reviewer is plugged in
Reviews(diff_text, files_touched, applied_actions) ==
    IF reviewer = "stock"
      THEN {architecture_review(diff_text, files_touched, applied_actions)}
    ELSE {[findings |-> <<>>, requiredActions |-> <<>>],
          [findings |-> <<Finding("low", files_touched)>>, requiredActions |-> <<>>],
          [findings |-> <<Finding("high", files_touched)>>,
           requiredActions |-> <<RemoveTodo>>]}

\* any(f["severity"] == "high" for f in review["findings"])
any_high(r) == \E i \in DOMAIN r.findings : r.findings[i].severity = "high"

(***************************************************************************)
(* RunControl (src/harness/tui.py), driven by the monitor loop             *)
(***************************************************************************)
\* The run thread is alive: the monitor loop reads operator input
Alive == pc \notin {"idle", "done", "raised"}

toggle_pause ==
    /\ Alive
    /\ paused' = ~paused
    /\ UNCHANGED <<cancelled, cancelled_at>>
    /\ UNCHANGED <<adapterVars, configVars, otherVars, runVars>>

cancel ==
    /\ Alive
    /\ cancelled' = TRUE
    /\ cancelled_at' = IF cancelled_at # "never" THEN cancelled_at
                       ELSE IF pc = "final_event" THEN "after_status"
                       ELSE "before_status"
    /\ UNCHANGED paused
    /\ UNCHANGED <<adapterVars, configVars, otherVars, runVars>>

(***************************************************************************)
(* RunControl called from two threads in any order                         *)
(***************************************************************************)
ControlInit ==
    /\ files = TestWorkspace
    /\ baseline = <<>>
    /\ allowlist = <<>>
    /\ call = [op |-> "__init__"]
    /\ captured = FALSE
    /\ touched = {}
    /\ NoRun
    /\ NoProject
    /\ NoEmit
    /\ NoRuns
    /\ NoThreads
    /\ NoRequest
    /\ NoDialogue
    /\ NoMonitor

\* toggle_pause, the test self._paused.is_set()
ToggleRead(t) ==
    /\ threads[t].pc = "idle"
    /\ threads' = [threads EXCEPT ![t].pc = IF paused THEN "toggle_clear" ELSE "toggle_set"]
    /\ UNCHANGED <<paused, cancelled, cancelled_at>>
    /\ UNCHANGED <<adapterVars, configVars, runVars, projectVars, emitVars, runsVars,
                   requestVars, dialogueVars, monitorVars>>

\* toggle_pause whose branches also clear the cancelled flag
ToggleWrite_clears_cancelled(t) ==
    /\ threads[t].pc \in {"toggle_clear", "toggle_set"}
    /\ paused' = (threads[t].pc = "toggle_set")
    /\ cancelled' = FALSE
    /\ threads' = [threads EXCEPT ![t].pc = "idle"]
    /\ UNCHANGED cancelled_at
    /\ UNCHANGED <<adapterVars, configVars, runVars, projectVars, emitVars, runsVars,
                   requestVars, dialogueVars, monitorVars>>

\* toggle_pause, the branch taken: self._paused.clear() or self._paused.set()
ToggleWrite(t) ==
    /\ threads[t].pc \in {"toggle_clear", "toggle_set"}
    /\ paused' = (threads[t].pc = "toggle_set")
    /\ threads' = [threads EXCEPT ![t].pc = "idle"]
    /\ UNCHANGED <<cancelled, cancelled_at>>
    /\ UNCHANGED <<adapterVars, configVars, runVars, projectVars, emitVars, runsVars,
                   requestVars, dialogueVars, monitorVars>>

\* cancel: self._cancelled.set()
Cancel(t) ==
    /\ threads[t].pc = "idle"
    /\ cancelled' = TRUE
    /\ cancelled_at' = "before_status"
    /\ UNCHANGED <<paused, threads>>
    /\ UNCHANGED <<adapterVars, configVars, runVars, projectVars, emitVars, runsVars,
                   requestVars, dialogueVars, monitorVars>>

\* is_cancelled: return self._cancelled.is_set()
IsCancelled(t) ==
    /\ threads[t].pc = "idle"
    /\ threads' = [threads EXCEPT ![t].is_cancelled = <<cancelled>>]
    /\ UNCHANGED <<paused, cancelled, cancelled_at>>
    /\ UNCHANGED <<adapterVars, configVars, runVars, projectVars, emitVars, runsVars,
                   requestVars, dialogueVars, monitorVars>>

\* wait_if_paused, the test of _paused in the loop condition, on the call and
\* after each sleep: the method returns where the flag is clear
WaitTestPaused(t) ==
    /\ threads[t].pc \in {"idle", "wait"}
    /\ threads' = [threads EXCEPT ![t].pc = IF paused THEN "wait_cancelled" ELSE "idle"]
    /\ UNCHANGED <<paused, cancelled, cancelled_at>>
    /\ UNCHANGED <<adapterVars, configVars, runVars, projectVars, emitVars, runsVars,
                   requestVars, dialogueVars, monitorVars>>

\* wait_if_paused, the test of _cancelled in the loop condition: the method
\* returns where the flag is set, and sleeps where it is not
WaitTestCancelled(t) ==
    /\ threads[t].pc = "wait_cancelled"
    /\ threads' = [threads EXCEPT ![t].pc = IF cancelled THEN "idle" ELSE "wait"]
    /\ UNCHANGED <<paused, cancelled, cancelled_at>>
    /\ UNCHANGED <<adapterVars, configVars, runVars, projectVars, emitVars, runsVars,
                   requestVars, dialogueVars, monitorVars>>

ControlNext ==
    \/ \E t \in Threads : ToggleRead(t)
    \/ \E t \in Threads : ToggleWrite(t)
    \/ \E t \in Threads : Cancel(t)
    \/ \E t \in Threads : IsCancelled(t)
    \/ \E t \in Threads : WaitTestPaused(t)
    \/ \E t \in Threads : WaitTestCancelled(t)

SpecControl == ControlInit /\ [][ControlNext]_vars

(***************************************************************************)
(* Orchestrator.run (src/harness/orchestrator.py)                          *)
(***************************************************************************)
Keys == <<"format", "lint", "test">>

\* The command configurations explored
CommandConfigs ==
    {<<None, None, None>>, <<FmtFix, UsrBinRm, FmtFix>>, <<UsrBinRm, None, FmtFix>>}

\* The keyword arguments the callers of run (cli.py, tui.py, the tests) pass:
\* <<>> for a call without them
Requests ==
    {<<>>,
     <<[workspace_mode |-> "existing-folder", project_name |-> None]>>,
     <<[workspace_mode |-> "existing-git", project_name |-> None]>>,
     <<[workspace_mode |-> "new-project", project_name |-> None]>>,
     <<[workspace_mode |-> "new-project", project_name |-> App]>>,
     <<[workspace_mode |-> "new-project", project_name |-> DotDotEsc]>>}

\* The workspaces a run starts on
InitialWorkspaces == {TestWorkspace, WithFile(TestWorkspace, SrcAppPy, Todo)}

\* What a spawned process can do to the workspace it runs in
ProcessEffects ==
    {[kind |-> "none"], [kind |-> "write", path |-> SrcAppPy, bytes |-> Todo],
     [kind |-> "remove", path |-> SrcAppPy]}

Apply(effect, fs) ==
    IF effect.kind = "write" THEN WithFile(fs, effect.path, effect.bytes)
    ELSE IF effect.kind = "remove" THEN WithoutFile(fs, effect.path)
    ELSE fs

Touches(effect, fs) ==
    IF effect.kind = "write"
      THEN IF effect.path \in DOMAIN fs /\ fs[effect.path] = effect.bytes
             THEN {} ELSE {effect.path}
    ELSE IF effect.kind = "remove" THEN {effect.path} \cap DOMAIN fs
    ELSE {}

\* The fields of an event that the run decides (runId and timestamp are left
\* out: they are the same for, or do not depend on, what the run does)
Event(source, type, level, message, agent_role, data) ==
    [source |-> source, type |-> type, level |-> level, message |-> message,
     agentRole |-> agent_role, data |-> data]

\* The bytes of events.jsonl: one line per event
EventsBytes(evts) == [i \in 1..Len(evts) |-> "{"]

\* _emit_event for each of new_events in turn: the line is appended to
\* events.jsonl, which lies inside the workspace directory
_emit_event(new_events) ==
    /\ events' = events \o new_events
    /\ files' = WithFile(files, EventsLog, EventsBytes(events \o new_events))
    /\ touched' = touched \cup {EventsLog}

check_status(c) ==
    IF c.skipped THEN "skipped"
    ELSE IF c.returncode = <<0>> THEN "passed" ELSE "failed"

\* _write_final_summary: the content of final-summary.md
final_summary(changed, chks, rev, unresolved) ==
    [changed_files |-> changed,
     checks |-> [i \in DOMAIN chks |->
                   [command |-> chks[i].command, status |-> check_status(chks[i])]],
     resolved_high |-> IF ~any_high(rev) THEN "yes" ELSE "no",
     unresolved_count |-> Len(unresolved)]

\* path.write_text(content) in the run directory
WriteText(dir, name, content) ==
    [n \in DOMAIN dir \cup {name} |-> IF n = name THEN content ELSE dir[n]]

NoFindings == [findings |-> <<>>]

\* _cancelled that does not consult the control
_cancelled_ignored(is_cancelled) == FALSE

\* _cancelled(control), given what control.is_cancelled() returns
_cancelled(is_cancelled) == is_cancelled

\* the loop condition with the budget off by one
loop_condition_off_by_one(rev, iters, max) == any_high(rev) /\ iters <= max

\* line 154: the condition of the convergence loop
loop_condition(rev, iters, max) == any_high(rev) /\ iters < max

\* the final status with the two branches swapped
final_status_swapped(is_cancelled) == IF is_cancelled THEN "completed" ELSE "cancelled"

\* line 169: the final status
final_status(is_cancelled) == IF is_cancelled THEN "cancelled" ELSE "completed"

\* the type of the last event without the cancelled case
run_event_type_completed(status) == "run.completed"

\* line 184: the type of the last event
run_event_type(status) == IF status = "completed" THEN "run.completed" ELSE "run.cancelled"

\* The entry of the history for a Reviewer call
Reviewed(r) == IF any_high(r) THEN "reviewer:high" ELSE "reviewer:pass"

RunInit ==
    /\ files \in InitialWorkspaces
    /\ baseline = <<>>
    /\ allowlist \in Allowlists
    /\ call = [op |-> "__init__"]
    /\ captured = FALSE
    /\ touched = {}
    /\ commands \in CommandConfigs
    /\ max_iterations \in 0..MaxIterBound
    /\ reviewer \in {"stock", "plugged"}
    /\ workflow \in {"frontend_feature", "arch_review_only"}
    /\ request \in Requests
    /\ paused = FALSE
    /\ cancelled = FALSE
    /\ cancelled_at = "never"
    /\ pc = "start"
    /\ ckpt = "first"
    /\ run_log = [status |-> "none", toolCalls |-> <<>>]
    /\ run_dir = <<>>
    /\ events = <<>>
    /\ checks = <<>>
    /\ key = 1
    /\ plan = <<>>
    /\ build_result = <<>>
    /\ review = <<>>
    /\ iterations = 0
    /\ context_files = <<>>
    /\ writes = <<>>
    /\ trace = <<>>
    /\ NoProject
    /\ NoEmit
    /\ NoRuns
    /\ NoThreads
    /\ NoRequest
    /\ NoDialogue
    /\ NoMonitor

\* line 59: run has no parameter workspace_mode, project_name or init_git, so a
\* call with one of them raises TypeError before the body is entered
RunCallRejected ==
    /\ pc = "start"
    /\ request # <<>>
    /\ pc' = "raised"
    /\ trace' = Append(trace, "raised:TypeError")
    /\ UNCHANGED <<ckpt, run_log, run_dir, events, checks, key, plan, build_result,
                   review, iterations, context_files, writes>>
    /\ UNCHANGED <<adapterVars, configVars, otherVars, controlVars>>

\* lines 60-91: the adapter is constructed, the run directory made, run.started
\* and the three idle events emitted
Start ==
    /\ pc = "start"
    /\ request = <<>>
    /\ baseline' = <<>>
    /\ captured' = FALSE
    /\ _emit_event(
         <<Event("orchestrator", "run.started", "info", "Run started", "",
                 [workflow |-> workflow])>>
         \o [i \in 1..3 |->
               Event("agent", "agent.status", "info", "idle",
                     <<"frontend", "builder", "architecture">>[i],
                     [status |-> "Idle", currentStep |-> "init"])])
    /\ run_log' = [workflow |-> workflow, status |-> "running", toolCalls |-> <<>>]
    /\ trace' = Append(trace, "start")
    /\ pc' = "wait"
    /\ ckpt' = "first"
    /\ UNCHANGED <<allowlist, call, run_dir, checks, key, plan, build_result, review,
                   iterations, context_files, writes>>
    /\ UNCHANGED <<configVars, otherVars, controlVars>>

\* wait_if_paused that takes the run for paused whatever _paused is
WaitReadPaused_never_leaves ==
    /\ pc = "wait"
    /\ pc' = "wait_cancelled"
    /\ UNCHANGED <<ckpt, run_log, run_dir, events, checks, key, plan, build_result,
                   review, iterations, context_files, writes, trace>>
    /\ UNCHANGED <<adapterVars, configVars, otherVars, controlVars>>

\* RunControl.wait_if_paused, the test of _paused in the loop condition
WaitReadPaused ==
    /\ pc = "wait"
    /\ pc' = IF paused THEN "wait_cancelled" ELSE "check"
    /\ UNCHANGED <<ckpt, run_log, run_dir, events, checks, key, plan, build_result,
                   review, iterations, context_files, writes, trace>>
    /\ UNCHANGED <<adapterVars, configVars, otherVars, controlVars>>

\* wait_if_paused that returns after the first test of _cancelled
WaitReadCancelled_returns ==
    /\ pc = "wait_cancelled"
    /\ pc' = "check"
    /\ UNCHANGED <<ckpt, run_log, run_dir, events, checks, key, plan, build_result,
                   review, iterations, context_files, writes, trace>>
    /\ UNCHANGED <<adapterVars, configVars, otherVars, controlVars>>

\* RunControl.wait_if_paused, the test of _cancelled in the loop condition,
\* and the sleep when the loop goes round
WaitReadCancelled ==
    /\ pc = "wait_cancelled"
    /\ pc' = IF cancelled THEN "check" ELSE "wait"
    /\ UNCHANGED <<ckpt, run_log, run_dir, events, checks, key, plan, build_result,
                   review, iterations, context_files, writes, trace>>
    /\ UNCHANGED <<adapterVars, configVars, otherVars, controlVars>>

\* the cancelled return without the final summary
CancelledReturn_no_summary(chks, where) ==
    LET log == [run_log EXCEPT !.status = "cancelled"]
    IN  /\ run_log' = log
        /\ writes' = Append(writes, log.status)
        /\ run_dir' = WriteText(run_dir, "run-log.json", log)
        /\ _emit_event(<<Event("orchestrator", "run.cancelled", "warning",
                               "Run cancelled", "", <<>>)>>)
        /\ trace' = Append(trace, where)
        /\ pc' = "done"

\* lines 95-99 and 130-134: the run is finalized as cancelled
CancelledReturn(chks, where) ==
    LET log == [run_log EXCEPT !.status = "cancelled"]
    IN  /\ run_log' = log
        /\ writes' = Append(writes, log.status)
        /\ run_dir' = WriteText(WriteText(run_dir, "run-log.json", log),
                                "final-summary.md",
                                final_summary(changed_files(baseline, files), chks,
                                              NoFindings, <<>>))
        /\ _emit_event(<<Event("orchestrator", "run.cancelled", "warning",
                               "Run cancelled", "", <<>>)>>)
        /\ trace' = Append(trace, where)
        /\ pc' = "done"

\* lines 94-99: the checkpoint after start
CheckFirst ==
    /\ pc = "check" /\ ckpt = "first"
    /\ IF _cancelled(cancelled)
         THEN CancelledReturn(<<>>, "cancelled:first")
         ELSE /\ pc' = "gather"
              /\ UNCHANGED <<run_log, run_dir, events, files, touched, writes, trace>>
    /\ UNCHANGED <<baseline, allowlist, call, captured>>
    /\ UNCHANGED <<ckpt, checks, key, plan, build_result, review, iterations,
                   context_files>>
    /\ UNCHANGED <<configVars, otherVars, controlVars>>

\* the context is gathered and the Planner comes next whatever the workflow
GatherContext_then_plan ==
    /\ pc = "gather"
    /\ context_files' = list_files(files)
    /\ run_log' = [run_log EXCEPT !.toolCalls =
                     Append(@, [type |-> "context_gather",
                                filesCount |-> Len(list_files(files))])]
    /\ _emit_event(<<Event("repo", "tool.call", "info", "Context gathered", "",
                           [filesCount |-> Len(list_files(files))])>>)
    /\ trace' = Append(trace, "context_gather")
    /\ pc' = "plan"
    /\ UNCHANGED <<baseline, allowlist, call, captured>>
    /\ UNCHANGED <<ckpt, run_dir, checks, key, plan, build_result, review, iterations,
                   writes>>
    /\ UNCHANGED <<configVars, otherVars, controlVars>>

\* lines 100-102
GatherContext ==
    /\ pc = "gather"
    /\ context_files' = list_files(files)
    /\ run_log' = [run_log EXCEPT !.toolCalls =
                     Append(@, [type |-> "context_gather",
                                filesCount |-> Len(list_files(files))])]
    /\ _emit_event(<<Event("repo", "tool.call", "info", "Context gathered", "",
                           [filesCount |-> Len(list_files(files))])>>)
    /\ trace' = Append(trace, "context_gather")
    /\ pc' = IF workflow = "arch_review_only" THEN "arch_review" ELSE "plan"
    /\ UNCHANGED <<baseline, allowlist, call, captured>>
    /\ UNCHANGED <<ckpt, run_dir, checks, key, plan, build_result, review, iterations,
                   writes>>
    /\ UNCHANGED <<configVars, otherVars, controlVars>>

\* lines 105-114: the review-only workflow
ArchReview ==
    /\ pc = "arch_review"
    /\ \E r \in Reviews(diff(baseline, files), changed_files(baseline, files), <<>>) :
         LET log == [run_log EXCEPT !.status = "completed"]
         IN  /\ review' = r
             /\ run_log' = log
             /\ trace' = trace \o <<Reviewed(r), "finalize">>
             /\ writes' = writes \o <<run_log.status, log.status>>
             /\ run_dir' =
                  WriteText(
                    WriteText(
                      WriteText(run_dir, "architecture-review.json", r),
                      "final-summary.md",
                      final_summary(changed_files(baseline, files), <<>>, r, <<>>)),
                    "run-log.json", log)
    /\ _emit_event(
         <<Event("agent", "agent.status", "info", "architecture running", "architecture",
                 [status |-> "Running", currentStep |-> "architecture_review"]),
           Event("agent", "agent.status", "info", "architecture completed", "architecture",
                 [status |-> "Completed", currentStep |-> "architecture_review"]),
           Event("orchestrator", "run.completed", "info", "Run completed", "", <<>>)>>)
    /\ pc' = "done"
    /\ UNCHANGED <<baseline, allowlist, call, captured>>
    /\ UNCHANGED <<ckpt, checks, key, plan, build_result, iterations, context_files>>
    /\ UNCHANGED <<configVars, otherVars, controlVars>>

\* lines 116-126: the Planner is called and plan.md written
Plan ==
    /\ pc = "plan"
    /\ plan' = frontend_plan(context_files)
    /\ run_dir' = WriteText(run_dir, "plan.md", frontend_plan(context_files))
    /\ _emit_event(
         <<Event("agent", "agent.status", "info", "frontend running", "frontend",
                 [status |-> "Running", currentStep |-> "plan"]),
           Event("agent", "agent.status", "info", "frontend completed", "frontend",
                 [status |-> "Completed", currentStep |-> "plan"])>>)
    /\ checks' = <<>>
    /\ key' = 1
    /\ trace' = Append(trace, "planner")
    /\ pc' = "wait"
    /\ ckpt' = "command"
    /\ UNCHANGED <<baseline, allowlist, call, captured>>
    /\ UNCHANGED <<run_log, build_result, review, iterations, context_files, writes>>
    /\ UNCHANGED <<configVars, otherVars, controlVars>>

\* the checkpoint before a command that does not consult the control
CheckCommand_ignores_cancel ==
    /\ pc = "check" /\ ckpt = "command"
    /\ IF FALSE
         THEN CancelledReturn(checks, "cancelled:command")
         ELSE /\ pc' = "command"
              /\ UNCHANGED <<run_log, run_dir, events, files, touched, writes, trace>>
    /\ UNCHANGED <<baseline, allowlist, call, captured>>
    /\ UNCHANGED <<ckpt, checks, key, plan, build_result, review, iterations,
                   context_files>>
    /\ UNCHANGED <<configVars, otherVars, controlVars>>

\* lines 129-134: the checkpoint before a command
CheckCommand ==
    /\ pc = "check" /\ ckpt = "command"
    /\ IF _cancelled(cancelled)
         THEN CancelledReturn(checks, "cancelled:command")
         ELSE /\ pc' = "command"
              /\ UNCHANGED <<run_log, run_dir, events, files, touched, writes, trace>>
    /\ UNCHANGED <<baseline, allowlist, call, captured>>
    /\ UNCHANGED <<ckpt, checks, key, plan, build_result, review, iterations,
                   context_files>>
    /\ UNCHANGED <<configVars, otherVars, controlVars>>

\* lines 135-146: the command of the key is run and its result recorded; an
\* exception of run_command leaves run() at once
RunCommand(outcome, effect) ==
    /\ pc = "command"
    /\ LET c == run_command_call(commands[key], allowlist, outcome)
       IN  /\ call' = c
           /\ IF c.raised # ""
                THEN /\ pc' = "raised"
                     /\ trace' = Append(trace, "raised:" \o Keys[key])
                     /\ UNCHANGED <<files, touched, events, checks, run_log, key>>
                ELSE LET result == c.result[1]
                         done == IF c.spawn THEN effect ELSE [kind |-> "none"]
                         evts == events \o
                           <<Event("command", "tool.call",
                                   IF result.skipped \/ result.returncode = <<0>>
                                     THEN "info" ELSE "error",
                                   IF result.skipped THEN "skipped" ELSE "executed", "",
                                   [command |-> result.command, skipped |-> result.skipped,
                                    stdout |-> result.stdout, stderr |-> result.stderr])>>
                     IN  /\ checks' = Append(checks, result)
                         /\ run_log' = [run_log EXCEPT !.toolCalls =
                                          Append(@, [type |-> "command",
                                                     command |-> result.command,
                                                     skipped |-> result.skipped])]
                         /\ events' = evts
                         /\ files' = WithFile(Apply(done, files), EventsLog,
                                              EventsBytes(evts))
                         /\ touched' = touched \cup Touches(done, files) \cup {EventsLog}
                         /\ trace' = Append(trace, "command:" \o Keys[key])
                         /\ key' = key + 1
                         /\ pc' = IF key = Len(Keys) THEN "build" ELSE "wait"
    /\ UNCHANGED <<baseline, allowlist, captured>>
    /\ UNCHANGED <<ckpt, run_dir, plan, build_result, review, iterations,
                   context_files, writes>>
    /\ UNCHANGED <<configVars, otherVars, controlVars>>

\* the first Builder call with no Reviewer call after it
Build_without_review ==
    /\ pc = "build"
    /\ _emit_event(
         <<Event("agent", "agent.status", "info", "builder running", "builder",
                 [status |-> "Running", currentStep |-> "implement"]),
           Event("agent", "agent.step", "info", "builder tool activity", "builder",
                 [filesTouchedCount |-> Len(builder_implement(plan, <<>>).filesTouched)])>>)
    /\ build_result' = builder_implement(plan, <<>>)
    /\ review' = [findings |-> <<>>, requiredActions |-> <<>>]
    /\ iterations' = 0
    /\ trace' = Append(trace, "builder")
    /\ pc' = "loop"
    /\ UNCHANGED <<baseline, allowlist, call, captured>>
    /\ UNCHANGED <<ckpt, run_log, run_dir, checks, key, plan, context_files, writes>>
    /\ UNCHANGED <<configVars, otherVars, controlVars>>

\* lines 148-153: the first Builder and Reviewer calls
Build ==
    /\ pc = "build"
    /\ _emit_event(
         <<Event("agent", "agent.status", "info", "builder running", "builder",
                 [status |-> "Running", currentStep |-> "implement"]),
           Event("agent", "agent.step", "info", "builder tool activity", "builder",
                 [filesTouchedCount |-> Len(builder_implement(plan, <<>>).filesTouched)])>>)
    /\ build_result' = builder_implement(plan, <<>>)
    /\ review' \in Reviews(diff(baseline, files'), build_result'.filesTouched,
                           build_result'.appliedActions)
    /\ iterations' = 0
    /\ trace' = trace \o <<"builder", Reviewed(review')>>
    /\ pc' = "loop"
    /\ UNCHANGED <<baseline, allowlist, call, captured>>
    /\ UNCHANGED <<ckpt, run_log, run_dir, checks, key, plan, context_files, writes>>
    /\ UNCHANGED <<configVars, otherVars, controlVars>>

\* line 154: the condition of the convergence loop
LoopTest ==
    /\ pc = "loop"
    /\ IF loop_condition(review, iterations, max_iterations)
         THEN pc' = "wait" /\ ckpt' = "retry"
         ELSE pc' = "finalize" /\ ckpt' = ckpt
    /\ UNCHANGED <<run_log, run_dir, events, checks, key, plan, build_result, review,
                   iterations, context_files, writes, trace>>
    /\ UNCHANGED <<adapterVars, configVars, otherVars, controlVars>>

\* lines 156-157: the checkpoint before a retry
CheckRetry ==
    /\ pc = "check" /\ ckpt = "retry"
    /\ pc' = IF _cancelled(cancelled) THEN "finalize" ELSE "retry"
    /\ trace' = IF _cancelled(cancelled) THEN Append(trace, "cancelled:retry") ELSE trace
    /\ UNCHANGED <<ckpt, run_log, run_dir, events, checks, key, plan, build_result,
                   review, iterations, context_files, writes>>
    /\ UNCHANGED <<adapterVars, configVars, otherVars, controlVars>>

\* lines 158-160: one retry of Builder and Reviewer
Retry ==
    /\ pc = "retry"
    /\ iterations' = iterations + 1
    /\ build_result' = builder_implement(plan, review.requiredActions)
    /\ review' \in Reviews(diff(baseline, files), build_result'.filesTouched,
                           build_result'.appliedActions)
    /\ trace' = trace \o <<"builder", Reviewed(review')>>
    /\ pc' = "loop"
    /\ UNCHANGED <<ckpt, run_log, run_dir, events, checks, key, plan, context_files,
                   writes>>
    /\ UNCHANGED <<adapterVars, configVars, otherVars, controlVars>>

\* lines 161-168: the artifacts are written with the run log still running
Finalize ==
    /\ pc = "finalize"
    /\ _emit_event(
         <<Event("agent", "agent.status", "info", "builder completed", "builder",
                 [status |-> "Completed", currentStep |-> "implement"]),
           Event("agent", "agent.status", "info", "architecture running", "architecture",
                 [status |-> "Running", currentStep |-> "architecture_review"])>>)
    /\ run_dir' =
         WriteText(
           WriteText(
             WriteText(
               WriteText(run_dir, "architecture-review.json", review),
               "changes.patch", diff(baseline, files')),
             "run-log.json", run_log),
           "final-summary.md",
           final_summary(changed_files(baseline, files'), checks, review, <<>>))
    /\ writes' = Append(writes, run_log.status)
    /\ trace' = Append(trace, "finalize")
    /\ pc' = "status"
    /\ UNCHANGED <<baseline, allowlist, call, captured>>
    /\ UNCHANGED <<ckpt, run_log, checks, key, plan, build_result, review, iterations,
                   context_files>>
    /\ UNCHANGED <<configVars, otherVars, controlVars>>

\* the final status written, and run-log.json then written again as it was
\* before the status was decided
DecideStatus_then_running ==
    /\ pc = "status"
    /\ run_log' = [run_log EXCEPT !.status = final_status(_cancelled(cancelled))]
    /\ run_dir' = WriteText(run_dir, "run-log.json", run_log)
    /\ writes' = writes \o <<run_log'.status, run_log.status>>
    /\ pc' = "final_event"
    /\ UNCHANGED <<ckpt, events, checks, key, plan, build_result, review, iterations,
                   context_files, trace>>
    /\ UNCHANGED <<adapterVars, configVars, otherVars, controlVars>>

\* lines 169-170: the final status is read from the control and written
DecideStatus ==
    /\ pc = "status"
    /\ run_log' = [run_log EXCEPT !.status = final_status(_cancelled(cancelled))]
    /\ run_dir' = WriteText(run_dir, "run-log.json", run_log')
    /\ writes' = Append(writes, run_log'.status)
    /\ pc' = "final_event"
    /\ UNCHANGED <<ckpt, events, checks, key, plan, build_result, review, iterations,
                   context_files, trace>>
    /\ UNCHANGED <<adapterVars, configVars, otherVars, controlVars>>

\* lines 171-189: the control is read again for the agent.status event; the run
\* event is derived from the run log
FinalEvents ==
    /\ pc = "final_event"
    /\ _emit_event(
         <<Event("agent", "agent.status", "info", "architecture completed", "architecture",
                 [status |-> IF _cancelled(cancelled) THEN "Cancelled" ELSE "Completed",
                  currentStep |-> "architecture_review"]),
           Event("orchestrator", run_event_type(run_log.status),
                 IF run_log.status = "completed" THEN "info" ELSE "warning",
                 IF run_log.status = "completed" THEN "Run completed" ELSE "Run cancelled",
                 "", <<>>)>>)
    /\ pc' = "done"
    /\ UNCHANGED <<baseline, allowlist, call, captured>>
    /\ UNCHANGED <<ckpt, run_log, run_dir, checks, key, plan, build_result, review,
                   iterations, context_files, writes, trace>>
    /\ UNCHANGED <<configVars, otherVars, controlVars>>

RunStep ==
    \/ RunCallRejected
    \/ Start
    \/ WaitReadPaused
    \/ WaitReadCancelled
    \/ CheckFirst
    \/ GatherContext
    \/ ArchReview
    \/ Plan
    \/ CheckCommand
    \/ /\ pc = "command"
       /\ \E outcome \in OutcomesOf(commands[key], allowlist) :
            \E effect \in ProcessEffects : RunCommand(outcome, effect)
    \/ Build
    \/ LoopTest
    \/ CheckRetry
    \/ Retry
    \/ Finalize
    \/ DecideStatus
    \/ FinalEvents

Next == RunStep \/ toggle_pause \/ cancel

Spec == RunInit /\ [][Next]_vars

\* The positions of the run thread
Positions ==
    {"start", "wait", "wait_cancelled", "check", "gather", "arch_review", "plan",
     "command", "build", "loop", "retry", "finalize", "status", "final_event",
     "done", "raised"}

\* The run thread takes a step: it is alive and its position changes (every
\* step of RunStep changes pc, no step of the operator does, and a live run
\* thread always has a step to take)
RunThreadStep == Alive /\ pc' \in Positions

\* The run thread is scheduled again and again: _runner is a thread of its
\* own that the interpreter does not starve
SpecLive == RunInit /\ [][Next]_vars /\ WF_pc(RunThreadStep)

(***************************************************************************)
(* Orchestrator._redact and Orchestrator._emit_event with a subscriber     *)
(***************************************************************************)
MaxEvents == 3     \* the number of _emit_event calls explored

Digits == {"0", "1", "2", "3", "4", "5", "6", "7", "8", "9"}
Upper  == {"A", "B", "C", "D", "E", "F", "G", "H", "I", "J", "K", "L", "M", "N",
           "O", "P", "Q", "R", "S", "T", "U", "V", "W", "X", "Y", "Z"}
Lower  == {"a", "b", "c", "d", "e", "f", "g", "h", "i", "j", "k", "l", "m", "n",
           "o", "p", "q", "r", "s", "t", "u", "v", "w", "x", "y", "z"}

Redacted == <<"*", "*", "*", "R", "E", "D", "A", "C", "T", "E", "D", "*", "*", "*">>

\* text has the characters of word from index i on
StartsWith(text, i, word) ==
    i + Len(word) - 1 <= Len(text) /\ SubSeq(text, i, i + Len(word) - 1) = word

\* The length of the longest run of characters of class from index i on
RECURSIVE RunLength(_, _, _)
RunLength(text, i, class) ==
    IF i > Len(text) \/ text[i] \notin class THEN 0
    ELSE 1 + RunLength(text, i + 1, class)

\* the match without the alternative for AKIA keys
MatchLength_no_akia(text, i) ==
    IF StartsWith(text, i, <<"g", "h", "p", "_">>)
         /\ RunLength(text, i + 4, Upper \cup Lower \cup Digits) >= 20
      THEN 4 + RunLength(text, i + 4, Upper \cup Lower \cup Digits)
    ELSE IF StartsWith(text, i, <<"s", "k", "-">>)
         /\ RunLength(text, i + 3, Upper \cup Lower \cup Digits) >= 20
      THEN 3 + RunLength(text, i + 3, Upper \cup Lower \cup Digits)
    ELSE 0

\* The length of the match of
\*   (ghp_[A-Za-z0-9]{20,}|sk-[A-Za-z0-9]{20,}|AKIA[0-9A-Z]{16})
\* at index i, 0 where the pattern does not match there
MatchLength(text, i) ==
    IF StartsWith(text, i, <<"g", "h", "p", "_">>)
         /\ RunLength(text, i + 4, Upper \cup Lower \cup Digits) >= 20
      THEN 4 + RunLength(text, i + 4, Upper \cup Lower \cup Digits)
    ELSE IF StartsWith(text, i, <<"s", "k", "-">>)
         /\ RunLength(text, i + 3, Upper \cup Lower \cup Digits) >= 20
      THEN 3 + RunLength(text, i + 3, Upper \cup Lower \cup Digits)
    ELSE IF StartsWith(text, i, <<"A", "K", "I", "A">>)
         /\ RunLength(text, i + 4, Digits \cup Upper) >= 16
      THEN 20
    ELSE 0

\* re.sub(pattern, "***REDACTED***", text): the matches are found from left to
\* right and do not overlap
RECURSIVE re_sub(_, _)
re_sub(text, i) ==
    IF i > Len(text) THEN <<>>
    ELSE IF MatchLength(text, i) > 0
      THEN Redacted \o re_sub(text, i + MatchLength(text, i))
    ELSE <<text[i]>> \o re_sub(text, i + 1)

\* Values of a payload: a str, a list, a dict, or a value of another type
Str(chars)   == [t |-> "str", v |-> chars]
List(values) == [t |-> "list", v |-> values]
Dict(items)  == [t |-> "dict", v |-> items]
Other(value) == [t |-> "other", v |-> value]

\* lines 27-34
RECURSIVE _redact(_)
_redact(value) ==
    IF value.t = "str" THEN Str(re_sub(value.v, 1))
    ELSE IF value.t = "list"
      THEN List([i \in DOMAIN value.v |-> _redact(value.v[i])])
    ELSE IF value.t = "dict"
      THEN Dict([k \in DOMAIN value.v |-> _redact(value.v[k])])
    ELSE value

\* n characters c
Rep(c, n) == [i \in 1..n |-> c]

\* Texts that commands, models and processes can put into an event
Plain    == <<"o", "k">>
GhpToken == <<"g", "h", "p", "_">> \o Rep("a", 20)
GhpText  == <<"t", " ">> \o GhpToken \o <<" ", "x">>
SkShort  == <<"s", "k", "-">> \o Rep("a", 19)
SkTwice  == <<"s", "k", "-">> \o Rep("A", 20) \o <<"s", "k", "-">> \o Rep("0", 20)
AkiaLong == <<"A", "K", "I", "A">> \o Rep("Z", 17)

\* The message and data of the _emit_event calls explored: data is a dict
\* with the keys the orchestrator writes, <<>> where no data is passed
Emissions ==
    {[message |-> Plain, data |-> <<>>],
     [message |-> GhpText,
      data |-> <<Dict([workflow |-> Str(SkTwice)])>>],
     [message |-> Plain,
      data |-> <<Dict([command |-> Str(GhpText), skipped |-> Other("False"),
                       stdout |-> Str(AkiaLong), stderr |-> Str(SkShort)])>>],
     [message |-> SkShort,
      data |-> <<Dict([status |-> Str(Plain),
                       items |-> List(<<Str(AkiaLong), Other("3"),
                                        List(<<Str(GhpToken)>>),
                                        Dict([model |-> Str(SkTwice)])>>)])>>]}

\* data or {}
data_or_empty(data) == IF data = <<>> THEN Dict(<<>>) ELSE data[1]

EventsInit ==
    /\ files = TestWorkspace
    /\ baseline = <<>>
    /\ allowlist = <<>>
    /\ call = [op |-> "__init__"]
    /\ captured = FALSE
    /\ touched = {}
    /\ NoRun
    /\ NoProject
    /\ event_sink \in BOOLEAN
    /\ emitted = <<>>
    /\ delivered = <<>>
    /\ epc = "idle"
    /\ NoRuns
    /\ NoThreads
    /\ NoRequest
    /\ NoDialogue
    /\ NoMonitor

\* _emit_event that hands the event to the subscriber, where one is attached,
\* in place of writing it
EmitWrite_sink_only(e) ==
    LET event == Event("command", "tool.call", "info", _redact(Str(e.message)).v, "",
                       _redact(data_or_empty(e.data)))
    IN  /\ epc = "idle"
        /\ Len(emitted) < MaxEvents
        /\ emitted' = Append(emitted, e)
        /\ IF event_sink
             THEN /\ delivered' = Append(delivered, event)
                  /\ UNCHANGED <<events, files, touched>>
             ELSE /\ _emit_event(<<event>>)
                  /\ UNCHANGED delivered
        /\ epc' = "idle"
        /\ UNCHANGED <<baseline, allowlist, call, captured, event_sink>>
        /\ UNCHANGED <<ckpt, pc, run_log, run_dir, checks, key, plan, build_result,
                       review, iterations, context_files, writes, trace>>
        /\ UNCHANGED <<configVars, controlVars, projectVars, runsVars,
                   threadVars, requestVars, dialogueVars, monitorVars>>

\* lines 37-48: the event is built from the redacted message and data and its
\* line appended to events.jsonl
EmitWrite(e) ==
    LET event == Event("command", "tool.call", "info", _redact(Str(e.message)).v, "",
                       _redact(data_or_empty(e.data)))
    IN  /\ epc = "idle"
        /\ Len(emitted) < MaxEvents
        /\ emitted' = Append(emitted, e)
        /\ _emit_event(<<event>>)
        /\ epc' = IF event_sink THEN "written" ELSE "idle"
        /\ UNCHANGED <<baseline, allowlist, call, captured, event_sink, delivered>>
        /\ UNCHANGED <<ckpt, pc, run_log, run_dir, checks, key, plan, build_result,
                       review, iterations, context_files, writes, trace>>
        /\ UNCHANGED <<configVars, controlVars, projectVars, runsVars,
                   threadVars, requestVars, dialogueVars, monitorVars>>

\* lines 49-50: event_sink(event), with the event that was written
EmitForward ==
    /\ epc = "written"
    /\ delivered' = Append(delivered, events[Len(events)])
    /\ epc' = "idle"
    /\ UNCHANGED <<event_sink, emitted>>
    /\ UNCHANGED <<adapterVars, configVars, controlVars, runVars, projectVars, runsVars,
                   threadVars, requestVars, dialogueVars, monitorVars>>

EventsNext ==
    \/ \E e \in Emissions : EmitWrite(e)
    \/ EmitForward

SpecEvents == EventsInit /\ [][EventsNext]_vars

(***************************************************************************)
(* Orchestrator._run_dir: several runs on one workspace                    *)
(***************************************************************************)
MaxClock == 3          \* the clock stops after this many ticks

TicksPerSecond == 2    \* a tick is half a second

\* lines 19-20: strftime("%Y%m%dT%H%M%SZ") of the time, the name of the run
\* directory: the time in whole seconds
stamp(time) == time \div TicksPerSecond

\* line 21: run_dir.mkdir(parents=True, exist_ok=True)
mkdir_exist_ok(disk, name) ==
    IF name \in DOMAIN disk THEN disk
    ELSE [n \in DOMAIN disk \cup {name} |->
            IF n = name THEN [events |-> <<>>, run_log |-> <<>>] ELSE disk[n]]

\* open("a") and write of one line to events.jsonl of the directory
append_event(disk, name, line) ==
    [disk EXCEPT ![name].events = Append(@, line)]

\* _write_json(run_dir / "run-log.json", run_log)
write_run_log(disk, name, log) ==
    [disk EXCEPT ![name].run_log = <<log>>]

RunsInit ==
    /\ files = TestWorkspace
    /\ baseline = <<>>
    /\ allowlist = <<>>
    /\ call = [op |-> "__init__"]
    /\ captured = FALSE
    /\ touched = {}
    /\ NoRun
    /\ NoProject
    /\ NoEmit
    /\ NoRuns
    /\ NoThreads
    /\ NoRequest
    /\ NoDialogue
    /\ NoMonitor

\* Time passes
Tick ==
    /\ clock < MaxClock
    /\ clock' = clock + 1
    /\ UNCHANGED <<runs, runs_disk>>
    /\ UNCHANGED <<adapterVars, configVars, controlVars, runVars, projectVars, emitVars,
                   threadVars, requestVars, dialogueVars, monitorVars>>

\* lines 66-67 of run r: the run directory is made and run.started written
StartRun(r) ==
    /\ runs[r].pc = "idle"
    /\ runs' = [runs EXCEPT ![r] = [pc |-> "running", run_dir |-> <<stamp(clock)>>]]
    /\ runs_disk' = append_event(mkdir_exist_ok(runs_disk, stamp(clock)), stamp(clock),
                                 [run |-> r, type |-> "run.started"])
    /\ UNCHANGED clock
    /\ UNCHANGED <<adapterVars, configVars, controlVars, runVars, projectVars, emitVars,
                   threadVars, requestVars, dialogueVars, monitorVars>>

\* a write of run-log.json by run r with the status running
WriteRunLog(r) ==
    /\ runs[r].pc = "running"
    /\ runs' = [runs EXCEPT ![r].pc = "logged"]
    /\ runs_disk' = write_run_log(runs_disk, runs[r].run_dir[1],
                                  [run |-> r, status |-> "running"])
    /\ UNCHANGED clock
    /\ UNCHANGED <<adapterVars, configVars, controlVars, runVars, projectVars, emitVars,
                   threadVars, requestVars, dialogueVars, monitorVars>>

\* the last write of run-log.json and the last event of run r
EndRun(r) ==
    /\ runs[r].pc = "logged"
    /\ runs' = [runs EXCEPT ![r].pc = "done"]
    /\ runs_disk' = append_event(
                      write_run_log(runs_disk, runs[r].run_dir[1],
                                    [run |-> r, status |-> "completed"]),
                      runs[r].run_dir[1], [run |-> r, type |-> "run.completed"])
    /\ UNCHANGED clock
    /\ UNCHANGED <<adapterVars, configVars, controlVars, runVars, projectVars, emitVars,
                   threadVars, requestVars, dialogueVars, monitorVars>>

RunsNext ==
    \/ Tick
    \/ \E r \in Runs : StartRun(r)
    \/ \E r \in Runs : WriteRunLog(r)
    \/ \E r \in Runs : EndRun(r)

SpecRuns == RunsInit /\ [][RunsNext]_vars

(***************************************************************************)
(* RunRequest.validate (src/harness/tui.py)                                *)
(***************************************************************************)
NewProject     == <<"n", "e", "w", "-", "p", "r", "o", "j", "e", "c", "t">>
ExistingFolder == <<"e", "x", "i", "s", "t", "i", "n", "g", "-", "f", "o", "l", "d", "e", "r">>
ExistingGit    == <<"e", "x", "i", "s", "t", "i", "n", "g", "-", "g", "i", "t">>

\* The RunRequest values explored: each field None, empty and not empty
RunRequests ==
    [workspaceMode : {None, <<>>, NewProject, ExistingFolder, ExistingGit},
     workspacePath : {None, <<>>, <<"/", "w">>},
     workflow : {"frontend_feature"},
     taskPrompt : {None, <<>>, <<" ">>, <<"D", "o">>},
     projectName : {None, <<>>, App}]

\* not value, for a value that is None or a str
falsy(value) == value = None \/ value = <<>>

\* validate without the test of projectName
validate_any_project(r) ==
    IF falsy(r.workspaceMode) THEN "workspaceMode is required."
    ELSE IF falsy(r.workspacePath) THEN "workspacePath is required."
    ELSE IF falsy(r.taskPrompt) THEN "taskPrompt is required."
    ELSE "ok"

\* lines 37-46: the message of the ValueError raised, "ok" where validate
\* returns
validate(r) ==
    IF falsy(r.workspaceMode) THEN "workspaceMode is required."
    ELSE IF falsy(r.workspacePath) THEN "workspacePath is required."
    ELSE IF falsy(r.taskPrompt) THEN "taskPrompt is required."
    ELSE IF r.workspaceMode = NewProject /\ falsy(r.projectName)
      THEN "projectName is required for new-project mode."
    ELSE "ok"

RequestInit ==
    /\ files = TestWorkspace
    /\ baseline = <<>>
    /\ allowlist = <<>>
    /\ call = [op |-> "__init__"]
    /\ captured = FALSE
    /\ touched = {}
    /\ NoRun
    /\ NoProject
    /\ NoEmit
    /\ NoRuns
    /\ NoThreads
    /\ NoRequest
    /\ NoDialogue
    /\ NoMonitor

\* RunRequest(...): a request is constructed
Construct(r) ==
    /\ run_request = <<>>
    /\ run_request' = <<r>>
    /\ UNCHANGED validation
    /\ UNCHANGED <<adapterVars, configVars, controlVars, runVars, projectVars, emitVars,
                   runsVars, threadVars, dialogueVars, monitorVars>>

\* req.validate()
Validate ==
    /\ run_request # <<>>
    /\ validation = ""
    /\ validation' = validate(run_request[1])
    /\ UNCHANGED run_request
    /\ UNCHANGED <<adapterVars, configVars, controlVars, runVars, projectVars, emitVars,
                   runsVars, threadVars, dialogueVars, monitorVars>>

RequestNext ==
    \/ \E r \in RunRequests : Construct(r)
    \/ Validate

SpecRequest == RequestInit /\ [][RequestNext]_vars

(***************************************************************************)
(* ConversationController (src/harness/tui.py).  A message is the sequence *)
(* of its words, which single spaces separate; a word is a text without    *)
(* white space.  The regular expressions are matched word by word.         *)
(***************************************************************************)
MaxTurns == 3      \* the number of process_message calls explored

UpperSeq == <<"A", "B", "C", "D", "E", "F", "G", "H", "I", "J", "K", "L", "M",
              "N", "O", "P", "Q", "R", "S", "T", "U", "V", "W", "X", "Y", "Z">>
LowerSeq == <<"a", "b", "c", "d", "e", "f", "g", "h", "i", "j", "k", "l", "m",
              "n", "o", "p", "q", "r", "s", "t", "u", "v", "w", "x", "y", "z">>

\* str.lower(), and what re.I makes of a literal
lower(chars) ==
    [i \in 1..Len(chars) |->
        IF chars[i] \in Upper
          THEN LowerSeq[CHOOSE k \in 1..26 : UpperSeq[k] = chars[i]]
          ELSE chars[i]]

\* The characters \w matches
WordChars == Digits \cup Upper \cup Lower \cup {"_"}

\* " ".join(words)
RECURSIVE JoinWordsFrom(_, _)
JoinWordsFrom(ws, i) ==
    IF i > Len(ws) THEN <<>>
    ELSE IF i = Len(ws) THEN ws[i]
    ELSE ws[i] \o <<" ">> \o JoinWordsFrom(ws, i + 1)

JoinWords(ws) == JoinWordsFrom(ws, 1)

\* str.strip()
RECURSIVE strip(_)
strip(chars) ==
    IF chars = <<>> THEN chars
    ELSE IF chars[1] = " " THEN strip(Tail(chars))
    ELSE IF chars[Len(chars)] = " " THEN strip(SubSeq(chars, 1, Len(chars) - 1))
    ELSE chars

\* \w+ matches the whole word
AllWordChars(w) == w # <<>> /\ \A i \in 1..Len(w) : w[i] \in WordChars

\* the whole word is lit, whatever the case
IsWord(w, lit) == lower(w) = lit

\* \blit matches the end of the word
EndsBounded(w, lit) ==
    /\ Len(w) >= Len(lit)
    /\ SubSeq(lower(w), Len(w) - Len(lit) + 1, Len(w)) = lit
    /\ (Len(w) = Len(lit) \/ w[Len(w) - Len(lit)] \notin WordChars)

\* lit\b matches the start of the word
StartsBounded(w, lit) ==
    /\ StartsWith(lower(w), 1, lit)
    /\ (Len(w) = Len(lit) \/ w[Len(lit) + 1] \notin WordChars)

\* lines 53, 172: _NEW_PROJECT_RE.search(text)
_NEW_PROJECT_RE(msg) ==
    \E i \in 1..Len(msg) :
        /\ EndsBounded(msg[i], <<"n", "e", "w">>)
        /\ \E skip \in {0, 1} :
            /\ i + 1 + skip <= Len(msg)
            /\ (skip = 1 => AllWordChars(msg[i + 1]))
            /\ \E lit \in {<<"p", "r", "o", "j", "e", "c", "t">>, <<"a", "p", "p">>, <<"a", "p", "p", "l", "i", "c", "a", "t", "i", "o", "n">>} :
                StartsBounded(msg[i + 1 + skip], lit)

NameChars == Digits \cup Upper \cup Lower \cup {"_", "-"}

\* lines 54, 122-124: _extract_project_name(text), None without a match
RECURSIVE _extract_project_name_from(_, _)
_extract_project_name_from(msg, i) ==
    IF i + 1 > Len(msg) THEN None
    ELSE IF /\ (EndsBounded(msg[i], <<"c", "a", "l", "l", "e", "d">>) \/ EndsBounded(msg[i], <<"n", "a", "m", "e", "d">>))
            /\ msg[i + 1] # <<>>
            /\ msg[i + 1][1] \in Upper \cup Lower
            /\ RunLength(msg[i + 1], 2, NameChars) >= 1
      THEN SubSeq(msg[i + 1], 1, 1 + RunLength(msg[i + 1], 2, NameChars))
    ELSE _extract_project_name_from(msg, i + 1)

_extract_project_name(msg) == _extract_project_name_from(msg, 1)

ArchReviewOnly  == <<"a", "r", "c", "h", "_", "r", "e", "v", "i", "e", "w", "_", "o", "n", "l", "y">>
FrontendFeature == <<"f", "r", "o", "n", "t", "e", "n", "d", "_", "f", "e", "a", "t", "u", "r", "e">>

\* lines 55, 127-130: _extract_workflow(text)
_extract_workflow(msg) ==
    IF \E i \in 1..(Len(msg) - 1) :
        \/ /\ (EndsBounded(msg[i], <<"a", "r", "c", "h">>) \/ EndsBounded(msg[i], <<"a", "r", "c", "h", "i", "t", "e", "c", "t", "u", "r", "e">>))
           /\ StartsBounded(msg[i + 1], <<"r", "e", "v", "i", "e", "w">>)
        \/ /\ EndsBounded(msg[i], <<"r", "e", "v", "i", "e", "w">>)
           /\ StartsBounded(msg[i + 1], <<"o", "n", "l", "y">>)
    THEN ArchReviewOnly ELSE FrontendFeature

\* The number of characters from index i on before the next "," or ";"
RECURSIVE UntilStop(_, _)
UntilStop(w, i) ==
    IF i > Len(w) \/ w[i] \in {",", ";"} THEN 0 ELSE 1 + UntilStop(w, i + 1)

\* line 56: the length of the match of _PATH_RE at the start of a word, 0
\* where it does not match (the match starts after white space only)
PathLength(w) ==
    IF StartsWith(w, 1, <<".", ".", "/">>) \/ StartsWith(w, 1, <<".", ".", "\\">>) THEN 3 + UntilStop(w, 4)
    ELSE IF StartsWith(w, 1, <<".", "/">>) \/ StartsWith(w, 1, <<".", "\\">>) THEN 2 + UntilStop(w, 3)
    ELSE IF StartsWith(w, 1, <<"/">>) /\ UntilStop(w, 2) >= 1 THEN 1 + UntilStop(w, 2)
    ELSE IF StartsWith(w, 1, <<"~", "/">>) \/ StartsWith(w, 1, <<"~", "\\">>) THEN 2 + UntilStop(w, 3)
    ELSE 0

\* lines 116-119: _extract_path(text), None without a match
RECURSIVE _extract_path_from(_, _)
_extract_path_from(msg, i) ==
    IF i > Len(msg) THEN None
    ELSE IF PathLength(msg[i]) > 0 THEN SubSeq(msg[i], 1, PathLength(msg[i]))
    ELSE _extract_path_from(msg, i + 1)

_extract_path(msg) == _extract_path_from(msg, 1)

\* line 189: _PATH_RE.sub("", text)
_PATH_RE_sub(msg) ==
    JoinWords([i \in 1..Len(msg) |->
                  SubSeq(msg[i], PathLength(msg[i]) + 1, Len(msg[i]))])

\* The ways _SET_CMD_RE can match from one word on, in the order the
\* matcher tries them: with "the" before without, a field of two words
\* before one, with "model" before without
SetCmdWays ==
    <<<<1, 2, 1>>, <<1, 2, 0>>, <<1, 1, 1>>, <<1, 1, 0>>,
      <<0, 2, 1>>, <<0, 2, 0>>, <<0, 1, 1>>, <<0, 1, 0>>>>

\* _SET_CMD_RE matches from word i on in the given way
SetCmdMatches(msg, i, way) ==
    LET f == i + 1 + way[1]
        t == f + way[2] + way[3]
    IN  /\ t + 1 <= Len(msg)
        /\ (EndsBounded(msg[i], <<"s", "e", "t">>) \/ EndsBounded(msg[i], <<"c", "h", "a", "n", "g", "e">>))
        /\ (way[1] = 1 => IsWord(msg[i + 1], <<"t", "h", "e">>))
        /\ \A k \in f..(f + way[2] - 1) : AllWordChars(msg[k])
        /\ (way[3] = 1 => IsWord(msg[f + way[2]], <<"m", "o", "d", "e", "l">>))
        /\ IsWord(msg[t], <<"t", "o">>)

\* lines 57-60, 142-145: _SET_CMD_RE.search(text) as <<>> without a match and
\* as <<[field_text, value]>> with the leftmost match
_SET_CMD_RE(msg) ==
    LET hits == {p \in (1..Len(msg)) \X (1..Len(SetCmdWays)) :
                    SetCmdMatches(msg, p[1], SetCmdWays[p[2]])}
    IN  IF hits = {} THEN <<>>
        ELSE LET p == CHOOSE q \in hits : \A r \in hits :
                          q[1] < r[1] \/ (q[1] = r[1] /\ q[2] <= r[2])
                 way == SetCmdWays[p[2]]
                 f == p[1] + 1 + way[1]
             IN  <<[field_text |-> lower(JoinWords(SubSeq(msg, f, f + way[2] - 1))),
                    value |-> msg[f + way[2] + way[3] + 1]]>>

\* lines 65-71: the keys of _ROLE_TO_KEY in the order of the dictionary
RoleKeywords == <<<<"f", "r", "o", "n", "t", "e", "n", "d">>, <<"b", "u", "i", "l", "d", "e", "r">>, <<"a", "r", "c", "h", "i", "t", "e", "c", "t", "u", "r", "e">>, <<"a", "r", "c", "h", "i", "t", "e", "c", "t">>, <<"t", "u", "i">>>>

_ROLE_TO_KEY(role_kw) ==
    IF role_kw = <<"f", "r", "o", "n", "t", "e", "n", "d">> THEN "frontendModel"
    ELSE IF role_kw = <<"b", "u", "i", "l", "d", "e", "r">> THEN "builderModel"
    ELSE IF role_kw = <<"t", "u", "i">> THEN "tuiAssistantModel"
    ELSE "architectureModel"

\* The role group of _USE_MODEL_RE at the start of a word: the first
\* alternative that matches, <<>> where none does
UseRole(w) ==
    IF StartsWith(lower(w), 1, <<"f", "r", "o", "n", "t", "e", "n", "d">>) THEN <<<<"f", "r", "o", "n", "t", "e", "n", "d">>>>
    ELSE IF StartsWith(lower(w), 1, <<"b", "u", "i", "l", "d", "e", "r">>) THEN <<<<"b", "u", "i", "l", "d", "e", "r">>>>
    ELSE IF StartsWith(lower(w), 1, <<"a", "r", "c", "h", "i", "t", "e", "c", "t", "u", "r", "e">>) THEN <<<<"a", "r", "c", "h", "i", "t", "e", "c", "t", "u", "r", "e">>>>
    ELSE IF StartsWith(lower(w), 1, <<"a", "r", "c", "h", "i", "t", "e", "c", "t">>) THEN <<<<"a", "r", "c", "h", "i", "t", "e", "c", "t">>>>
    ELSE IF StartsWith(lower(w), 1, <<"t", "u", "i">>) THEN <<<<"t", "u", "i">>>>
    ELSE <<>>

\* _USE_MODEL_RE matches from word i on; r is the index of the role word
UseAt(msg, i, r) ==
    /\ r <= Len(msg)
    /\ EndsBounded(msg[i], <<"u", "s", "e">>)
    /\ r \in {i + 2, i + 3}
    /\ (r = i + 3 => (IsWord(msg[i + 2], <<"f", "o", "r">>) \/ IsWord(msg[i + 2], <<"a", "s">>)))
    /\ UseRole(msg[r]) # <<>>

\* lines 61-64, 164-165: the matches of _USE_MODEL_RE.finditer(text) from
\* word i on, in order, each as [role, model]
RECURSIVE _USE_MODEL_RE_from(_, _)
_USE_MODEL_RE_from(msg, i) ==
    IF i > Len(msg) THEN <<>>
    ELSE IF UseAt(msg, i, i + 3)
      THEN <<[role |-> UseRole(msg[i + 3])[1], model |-> msg[i + 1]]>>
           \o _USE_MODEL_RE_from(msg, i + 4)
    ELSE IF UseAt(msg, i, i + 2)
      THEN <<[role |-> UseRole(msg[i + 2])[1], model |-> msg[i + 1]]>>
           \o _USE_MODEL_RE_from(msg, i + 3)
    ELSE _USE_MODEL_RE_from(msg, i + 1)

_USE_MODEL_RE(msg) == _USE_MODEL_RE_from(msg, 1)

\* lines 72-75, 192: _INLINE_EDIT_RE.search(text)
_INLINE_EDIT_RE(msg) ==
    \E i \in 1..Len(msg) : \E the \in {0, 1} :
        LET f == i + 1 + the
        IN  /\ f <= Len(msg)
            /\ \E lit \in {<<"s", "e", "t">>, <<"c", "h", "a", "n", "g", "e">>, <<"u", "p", "d", "a", "t", "e">>} : EndsBounded(msg[i], lit)
            /\ (the = 1 => IsWord(msg[i + 1], <<"t", "h", "e">>))
            /\ \/ \E lit \in {<<"w", "o", "r", "k", "s", "p", "a", "c", "e">>, <<"p", "a", "t", "h">>, <<"f", "o", "l", "d", "e", "r">>, <<"w", "o", "r", "k", "f", "l", "o", "w">>, <<"m", "o", "d", "e", "l">>} :
                    StartsBounded(msg[f], lit)
               \/ /\ f + 1 <= Len(msg)
                  /\ IsWord(msg[f], <<"p", "r", "o", "j", "e", "c", "t">>)
                  /\ StartsBounded(msg[f + 1], <<"n", "a", "m", "e">>)

\* The directory the process runs in, and the directories that hold a .git
Cwd == <<<<"c">>>>
GitRepos == {<<<<"g">>>>}

\* str(Path(value).resolve())
resolved_str(value) == str(resolve(truediv(Cwd, value)))

\* lines 107-113: _detect_workspace_mode(path_str)
_detect_workspace_mode(path_str) ==
    IF resolve(truediv(Cwd, path_str)) \in GitRepos THEN ExistingGit ELSE ExistingFolder

\* d[key] = value on a dict
Put(d, k, v) == [x \in DOMAIN d \cup {k} |-> IF x = k THEN v ELSE d[x]]

\* d.get(key, default)
slot_get(d, k, default) == IF k \in DOMAIN d THEN d[k] ELSE default

\* not value for the value of a slot
Falsy(value) == value = None \/ value = <<>>

\* lines 132-135: _apply_model_override(role_kw, model_value)
_apply_model_override(s, role_kw, model_value) ==
    Put(s, "modelOverrides",
        Put(slot_get(s, "modelOverrides", <<>>), _ROLE_TO_KEY(role_kw), model_value))

\* lines 164-165: every match of _USE_MODEL_RE is applied, in order
RECURSIVE ApplyOverridesFrom(_, _, _)
ApplyOverridesFrom(s, matches, i) ==
    IF i > Len(matches) THEN s
    ELSE ApplyOverridesFrom(
             _apply_model_override(s, matches[i].role, matches[i].model), matches, i + 1)

ModelOverridesRule(s, msg) ==
    CHOOSE out \in {ApplyOverridesFrom(s, m, 1) : m \in {_USE_MODEL_RE(msg)}} : TRUE

\* lines 146-150 and 181-184: the path slot is set and, where no mode is, the
\* mode found at the path
SetPath(s, raw) ==
    LET s1 == Put(s, "workspacePath", resolved_str(raw))
    IN  IF "workspaceMode" \notin DOMAIN s1
          THEN Put(s1, "workspaceMode", _detect_workspace_mode(resolved_str(raw)))
          ELSE s1

\* The matched command where setting the path does not return
SetCommand_goes_on(s, field_text, value) ==
    LET roles == {i \in 1..Len(RoleKeywords) : Contains(field_text, RoleKeywords[i])}
    IN  IF \E kw \in {<<"w", "o", "r", "k", "s", "p", "a", "c", "e">>, <<"p", "a", "t", "h">>, <<"f", "o", "l", "d", "e", "r">>} : Contains(field_text, kw)
          THEN [done |-> FALSE, slots |-> SetPath(s, value)]
        ELSE IF Contains(field_text, <<"p", "r", "o", "j", "e", "c", "t">>) /\ Contains(field_text, <<"n", "a", "m", "e">>)
          THEN [done |-> TRUE, slots |-> Put(s, "projectName", value)]
        ELSE IF Contains(field_text, <<"w", "o", "r", "k", "f", "l", "o", "w">>)
          THEN [done |-> TRUE, slots |-> Put(s, "workflow", value)]
        ELSE IF roles # {}
          THEN [done |-> TRUE,
                slots |-> _apply_model_override(
                              s, RoleKeywords[CHOOSE i \in roles : \A j \in roles : i <= j],
                              value)]
        ELSE [done |-> FALSE, slots |-> s]

\* lines 144-161: what the matched command does, as [done, slots]; done is
\* FALSE where _parse_message goes on to the other rules
SetCommand(s, field_text, value) ==
    LET roles == {i \in 1..Len(RoleKeywords) : Contains(field_text, RoleKeywords[i])}
    IN  IF \E kw \in {<<"w", "o", "r", "k", "s", "p", "a", "c", "e">>, <<"p", "a", "t", "h">>, <<"f", "o", "l", "d", "e", "r">>} : Contains(field_text, kw)
          THEN [done |-> TRUE, slots |-> SetPath(s, value)]
        ELSE IF Contains(field_text, <<"p", "r", "o", "j", "e", "c", "t">>) /\ Contains(field_text, <<"n", "a", "m", "e">>)
          THEN [done |-> TRUE, slots |-> Put(s, "projectName", value)]
        ELSE IF Contains(field_text, <<"w", "o", "r", "k", "f", "l", "o", "w">>)
          THEN [done |-> TRUE, slots |-> Put(s, "workflow", value)]
        ELSE IF roles # {}
          THEN [done |-> TRUE,
                slots |-> _apply_model_override(
                              s, RoleKeywords[CHOOSE i \in roles : \A j \in roles : i <= j],
                              value)]
        ELSE [done |-> FALSE, slots |-> s]

\* lines 141-161: the inline command rule
InlineCommand(s, msg) ==
    CHOOSE out \in {IF m = <<>> THEN [done |-> FALSE, slots |-> s]
                    ELSE SetCommand(s, m[1].field_text, m[1].value) :
                    m \in {_SET_CMD_RE(msg)}} : TRUE

\* The task prompt rule where every message replaces a set task prompt
TaskPromptRule_always_replaces(s, msg) ==
    IF "taskPrompt" \notin DOMAIN s
      THEN (IF strip(_PATH_RE_sub(msg)) # <<>>
              THEN Put(s, "taskPrompt", strip(_PATH_RE_sub(msg))) ELSE s)
    ELSE Put(s, "taskPrompt", strip(JoinWords(msg)))

\* lines 186-194: the task prompt rule
TaskPromptRule(s, msg) ==
    IF "taskPrompt" \notin DOMAIN s
      THEN (IF strip(_PATH_RE_sub(msg)) # <<>>
              THEN Put(s, "taskPrompt", strip(_PATH_RE_sub(msg))) ELSE s)
    ELSE IF ~_INLINE_EDIT_RE(msg) /\ _USE_MODEL_RE(msg) = <<>>
      THEN Put(s, "taskPrompt", strip(JoinWords(msg)))
    ELSE s

\* The workflow rule that infers the workflow from every message
WorkflowRule_always_infers(s, msg) == Put(s, "workflow", _extract_workflow(msg))

\* lines 167-169: the workflow rule
WorkflowRule(s, msg) ==
    IF "workflow" \notin DOMAIN s THEN Put(s, "workflow", _extract_workflow(msg)) ELSE s

\* The new-project rule that never takes a project name from the message
NewProjectRule_without_name(s, msg) ==
    IF ~_NEW_PROJECT_RE(msg) THEN s ELSE Put(s, "workspaceMode", NewProject)

\* lines 171-176: the new-project rule
NewProjectRule(s, msg) ==
    IF ~_NEW_PROJECT_RE(msg) THEN s
    ELSE IF _extract_project_name(msg) # None
      THEN Put(Put(s, "workspaceMode", NewProject), "projectName",
               _extract_project_name(msg))
    ELSE Put(s, "workspaceMode", NewProject)

\* The path rule that takes the path of every message that has one
PathRule_overwrites(s, msg) ==
    IF _extract_path(msg) # None THEN SetPath(s, _extract_path(msg)) ELSE s

\* lines 178-184: the path rule
PathRule(s, msg) ==
    IF _extract_path(msg) # None /\ Falsy(slot_get(s, "workspacePath", None))
      THEN SetPath(s, _extract_path(msg)) ELSE s

\* lines 137-194: _parse_message(text), the slots it leaves: the inline
\* command and, where it does not return, the other rules one after another
_parse_message(s, msg) ==
    CHOOSE out \in
        {IF cmd.done THEN cmd.slots
         ELSE CHOOSE r \in
                 {TaskPromptRule(s4, msg) :
                     s4 \in {PathRule(s3, msg) :
                     s3 \in {NewProjectRule(s2, msg) :
                     s2 \in {WorkflowRule(s1, msg) :
                     s1 \in {ModelOverridesRule(cmd.slots, msg)}}}}} : TRUE :
         cmd \in {InlineCommand(s, msg)}} : TRUE

\* _missing_slots that never asks for the project name
_missing_slots_no_project(s) ==
    (IF Falsy(slot_get(s, "taskPrompt", None)) THEN <<"taskPrompt">> ELSE <<>>)
    \o (IF Falsy(slot_get(s, "workspacePath", None)) THEN <<"workspacePath">> ELSE <<>>)

\* lines 196-204: _missing_slots()
_missing_slots(s) ==
    (IF Falsy(slot_get(s, "taskPrompt", None)) THEN <<"taskPrompt">> ELSE <<>>)
    \o (IF Falsy(slot_get(s, "workspacePath", None)) THEN <<"workspacePath">> ELSE <<>>)
    \o (IF /\ slot_get(s, "workspaceMode", None) = NewProject
           /\ Falsy(slot_get(s, "projectName", None))
          THEN <<"projectName">> ELSE <<>>)

\* lines 206-215: _clarify(missing)
_clarify(missing) ==
    IF missing[1] = "taskPrompt"
      THEN "What would you like the agents to do? Please describe the task."
    ELSE IF missing[1] = "workspacePath"
      THEN "Which folder should I use? Please provide a path (e.g. ./my-project or /absolute/path)."
    ELSE "What should the new project be called?"

\* lines 240-262: summary(), as the values its lines show (a safety slot, where
\* there is one, is a dict that is not empty)
summary(s) ==
    LET mode == slot_get(s, "workspaceMode", ExistingFolder)
    IN  [task |-> slot_get(s, "taskPrompt", <<"-">>),
         mode |-> mode,
         path |-> slot_get(s, "workspacePath", <<"-">>),
         project_name |-> slot_get(s, "projectName", None),
         workflow |-> slot_get(s, "workflow", FrontendFeature),
         overrides |-> slot_get(s, "modelOverrides", <<>>),
         init_git |-> IF "safety" \in DOMAIN s THEN s["safety"].initGit
                      ELSE mode = NewProject]

\* lines 221-232: process_message(text): the slots it leaves and the pair
\* it returns
process_message(s, msg) ==
    CHOOSE out \in
        {IF _missing_slots(parsed) # <<>>
           THEN [slots |-> parsed,
                 response |-> [question |-> _clarify(_missing_slots(parsed))],
                 complete |-> FALSE]
           ELSE [slots |-> parsed, response |-> [summary |-> summary(parsed)],
                 complete |-> TRUE] :
         parsed \in {_parse_message(s, msg)}} : TRUE

\* lines 234-238: update_slot(key, value)
update_slot(s, k, value) ==
    LET s1 == Put(s, k, value)
    IN  IF k = "workspacePath" /\ "workspaceMode" \notin DOMAIN s1
          THEN Put(s1, "workspaceMode", _detect_workspace_mode(value))
          ELSE s1

\* build_run_request that takes every workspace for an existing folder
build_run_request_existing_folder(s) ==
    LET path == slot_get(s, "workspacePath", <<".">>)
        req == [workspaceMode |-> ExistingFolder,
                workspacePath |-> path,
                workflow |-> slot_get(s, "workflow", FrontendFeature),
                taskPrompt |-> slot_get(s, "taskPrompt", <<>>),
                projectName |-> slot_get(s, "projectName", None),
                modelOverrides |-> slot_get(s, "modelOverrides", None),
                commands |-> slot_get(s, "commands", None),
                safety |-> IF "safety" \in DOMAIN s THEN s["safety"]
                           ELSE [writeScopeRoot |-> path, initGit |-> FALSE]]
    IN  [request |-> req, validation |-> validate(req)]

\* lines 264-283: build_run_request(): the request made and the message of
\* the ValueError validate raises on it ("ok" where the request is returned)
build_run_request(s) ==
    LET mode == slot_get(s, "workspaceMode", ExistingFolder)
        path == slot_get(s, "workspacePath", <<".">>)
        req == [workspaceMode |-> mode,
                workspacePath |-> path,
                workflow |-> slot_get(s, "workflow", FrontendFeature),
                taskPrompt |-> slot_get(s, "taskPrompt", <<>>),
                projectName |-> slot_get(s, "projectName", None),
                modelOverrides |-> slot_get(s, "modelOverrides", None),
                commands |-> slot_get(s, "commands", None),
                safety |-> IF "safety" \in DOMAIN s THEN s["safety"]
                           ELSE [writeScopeRoot |-> path, initGit |-> mode = NewProject]]
    IN  [request |-> req, validation |-> validate(req)]

\* The messages explored
Messages ==
    {<<>>,
     <<<<"A", "d", "d">>, <<"l", "o", "g", "i", "n">>>>,
     <<<<"A", "d", "d">>, <<"l", "o", "g", "i", "n">>, <<"i", "n">>, <<"/", "w">>>>,
     <<<<"/", "g">>>>,
     <<<<"C", "r", "e", "a", "t", "e">>, <<"a">>, <<"n", "e", "w">>, <<"a", "p", "p">>, <<"c", "a", "l", "l", "e", "d">>, <<"D", "e", "m", "o">>>>,
     <<<<"C", "r", "e", "a", "t", "e">>, <<"a">>, <<"n", "e", "w">>, <<"p", "r", "o", "j", "e", "c", "t">>>>,
     <<<<"s", "e", "t">>, <<"p", "a", "t", "h">>, <<"t", "o">>, <<".", "/", "p">>>>,
     <<<<"c", "h", "a", "n", "g", "e">>, <<"t", "h", "e">>, <<"w", "o", "r", "k", "s", "p", "a", "c", "e">>, <<"t", "o">>, <<"/", "g">>>>,
     <<<<"s", "e", "t">>, <<"p", "r", "o", "j", "e", "c", "t">>, <<"n", "a", "m", "e">>, <<"t", "o">>, <<"S", "h", "o", "p">>>>,
     <<<<"s", "e", "t">>, <<"w", "o", "r", "k", "f", "l", "o", "w">>, <<"t", "o">>, <<"d", "e", "p", "l", "o", "y">>>>,
     <<<<"s", "e", "t">>, <<"b", "u", "i", "l", "d", "e", "r">>, <<"m", "o", "d", "e", "l">>, <<"t", "o">>, <<"m", "1">>>>,
     <<<<"U", "s", "e">>, <<"m", "2">>, <<"f", "o", "r">>, <<"a", "r", "c", "h", "i", "t", "e", "c", "t", "u", "r", "e">>, <<"r", "e", "v", "i", "e", "w">>>>,
     <<<<"u", "p", "d", "a", "t", "e">>, <<"t", "h", "e">>, <<"p", "a", "t", "h">>, <<"t", "o">>, <<"/", "w">>>>,
     <<<<"s", "e", "t">>, <<"c", "o", "l", "o", "r">>, <<"t", "o">>, <<"r", "e", "d">>>>,
     <<<<"r", "e", "v", "i", "e", "w">>, <<"o", "n", "l", "y">>>>,
     <<<<"s", "e", "t">>, <<"w", "o", "r", "k", "f", "l", "o", "w">>, <<"t", "o">>, <<"x">>, <<"i", "n">>, <<"n", "e", "w">>, <<"a", "p", "p">>>>,
     <<<<"C", "r", "e", "a", "t", "e">>, <<"a">>, <<"n", "e", "w">>, <<"R", "e", "a", "c", "t">>, <<"a", "p", "p">>, <<"c", "a", "l", "l", "e", "d">>, <<"C", "l", "a", "i", "m", "s", "P", "o", "r", "t", "a", "l">>, <<"a", "n", "d">>, <<"a", "d", "d">>, <<"a">>, <<"l", "o", "g", "i", "n">>, <<"p", "a", "g", "e", ".">>>>,
     <<<<"s", "e", "t">>, <<"w", "o", "r", "k", "f", "l", "o", "w">>, <<"t", "o">>, <<"x">>, <<"s", "e", "t">>, <<"p", "a", "t", "h">>, <<"t", "o">>, <<"/", "w">>>>}

\* The calls of update_slot explored
SlotUpdates ==
    {<<"taskPrompt", <<"A", "d", "d", " ", "f", "e", "a", "t", "u", "r", "e">>>>,
     <<"workspacePath", <<"/", "g">>>>,
     <<"workspaceMode", ExistingFolder>>,
     <<"safety", [writeScopeRoot |-> <<"/", "s">>, initGit |-> TRUE]>>}

DialogueInit ==
    /\ files = TestWorkspace
    /\ baseline = <<>>
    /\ allowlist = <<>>
    /\ call = [op |-> "__init__"]
    /\ captured = FALSE
    /\ touched = {}
    /\ NoRun
    /\ NoProject
    /\ NoEmit
    /\ NoRuns
    /\ NoThreads
    /\ NoRequest
    /\ NoDialogue
    /\ NoMonitor

\* controller.process_message(text)
ProcessMessage(msg) ==
    /\ history < 2 * MaxTurns
    /\ \E r \in {process_message(slots, msg)} :
        /\ slots' = r.slots
        /\ reply' = <<[response |-> r.response, complete |-> r.complete]>>
    /\ history' = history + 2
    /\ user_text' = msg
    /\ built' = <<>>
    /\ UNCHANGED <<adapterVars, configVars, controlVars, runVars, projectVars, emitVars,
                   runsVars, threadVars, requestVars, monitorVars>>

\* controller.update_slot(key, value)
UpdateSlot(k, value) ==
    /\ slots' = update_slot(slots, k, value)
    /\ reply' = <<>>
    /\ built' = <<>>
    /\ UNCHANGED <<history, user_text>>
    /\ UNCHANGED <<adapterVars, configVars, controlVars, runVars, projectVars, emitVars,
                   runsVars, threadVars, requestVars, monitorVars>>

\* controller.build_run_request()
BuildRunRequest ==
    /\ built' = <<build_run_request(slots)>>
    /\ UNCHANGED <<slots, history, user_text, reply>>
    /\ UNCHANGED <<adapterVars, configVars, controlVars, runVars, projectVars, emitVars,
                   runsVars, threadVars, requestVars, monitorVars>>

DialogueNext ==
    \/ \E msg \in Messages : ProcessMessage(msg)
    \/ \E u \in SlotUpdates : UpdateSlot(u[1], u[2])
    \/ BuildRunRequest

SpecDialogue == DialogueInit /\ [][DialogueNext]_vars

(***************************************************************************)
(* _monitor_run (src/harness/tui.py): the run thread puts events on the    *)
(* queue, the monitor loop takes and prints them and reads operator input  *)
(***************************************************************************)
MaxForwarded == 3      \* the number of events the run thread forwards at most

\* What the monitor reads from stdin within the poll timeout
Inputs == {"", "p", "c", "x"}

MonitorInit ==
    /\ files = TestWorkspace
    /\ baseline = <<>>
    /\ allowlist = <<>>
    /\ call = [op |-> "__init__"]
    /\ captured = FALSE
    /\ touched = {}
    /\ NoRun
    /\ NoProject
    /\ NoEmit
    /\ NoRuns
    /\ NoThreads
    /\ NoRequest
    /\ NoDialogue
    /\ NoMonitor

\* lines 375-376: on_event, called by the run thread for each event it emits
OnEvent ==
    /\ runner = "running"
    /\ forwarded < MaxForwarded
    /\ forwarded' = forwarded + 1
    /\ event_queue' = Append(event_queue, forwarded + 1)
    /\ UNCHANGED <<displayed, runner, mpc>>
    /\ UNCHANGED <<adapterVars, configVars, controlVars, runVars, projectVars, emitVars,
                   runsVars, threadVars, requestVars, dialogueVars>>

\* lines 386-399: _runner returns after run has emitted its last event
RunnerExits ==
    /\ runner = "running"
    /\ forwarded >= 1
    /\ runner' = "exited"
    /\ UNCHANGED <<event_queue, displayed, forwarded, mpc>>
    /\ UNCHANGED <<adapterVars, configVars, controlVars, runVars, projectVars, emitVars,
                   runsVars, threadVars, requestVars, dialogueVars>>

\* line 405: while thread.is_alive()
TestAlive ==
    /\ mpc = "alive"
    /\ mpc' = IF runner = "running" THEN "empty" ELSE "join"
    /\ UNCHANGED <<event_queue, displayed, forwarded, runner>>
    /\ UNCHANGED <<adapterVars, configVars, controlVars, runVars, projectVars, emitVars,
                   runsVars, threadVars, requestVars, dialogueVars>>

\* line 407: while not event_queue.empty()
TestEmpty ==
    /\ mpc = "empty"
    /\ mpc' = IF event_queue # <<>> THEN "get" ELSE "select"
    /\ UNCHANGED <<event_queue, displayed, forwarded, runner>>
    /\ UNCHANGED <<adapterVars, configVars, controlVars, runVars, projectVars, emitVars,
                   runsVars, threadVars, requestVars, dialogueVars>>

\* lines 408-410: the event is taken from the queue and printed
GetAndPrint ==
    /\ mpc = "get"
    /\ event_queue # <<>>
    /\ displayed' = Append(displayed, Head(event_queue))
    /\ event_queue' = Tail(event_queue)
    /\ mpc' = "empty"
    /\ UNCHANGED <<forwarded, runner>>
    /\ UNCHANGED <<adapterVars, configVars, controlVars, runVars, projectVars, emitVars,
                   runsVars, threadVars, requestVars, dialogueVars>>

\* lines 413-418: the poll of stdin and the command read, "" where the poll
\* times out
Select(command) ==
    /\ mpc = "select"
    /\ paused' = IF command = "p" THEN ~paused ELSE paused
    /\ cancelled' = IF command = "c" THEN TRUE ELSE cancelled
    /\ mpc' = "alive"
    /\ UNCHANGED cancelled_at
    /\ UNCHANGED <<event_queue, displayed, forwarded, runner>>
    /\ UNCHANGED <<adapterVars, configVars, runVars, projectVars, emitVars,
                   runsVars, threadVars, requestVars, dialogueVars>>

\* lines 419-422: thread.join() and the return
JoinAndReturn ==
    /\ mpc = "join"
    /\ runner = "exited"
    /\ mpc' = "returned"
    /\ UNCHANGED <<event_queue, displayed, forwarded, runner>>
    /\ UNCHANGED <<adapterVars, configVars, controlVars, runVars, projectVars, emitVars,
                   runsVars, threadVars, requestVars, dialogueVars>>

MonitorNext ==
    \/ OnEvent
    \/ RunnerExits
    \/ TestAlive
    \/ TestEmpty
    \/ GetAndPrint
    \/ \E command \in Inputs : Select(command)
    \/ JoinAndReturn

SpecMonitor == MonitorInit /\ [][MonitorNext]_vars

(***************************************************************************)
(* Properties of the run                                                   *)
(***************************************************************************)
\* The run has returned: run() reached a return statement
Returned == pc = "done"

\* The status in run-log.json
FileStatus == run_dir["run-log.json"].status

\* The status the last run.completed / run.cancelled event of the log denotes
RECURSIVE LastStatusEvent(_)
LastStatusEvent(evts) ==
    IF evts = <<>> THEN "none"
    ELSE IF evts[Len(evts)].type = "run.completed" THEN "completed"
    ELSE IF evts[Len(evts)].type = "run.cancelled" THEN "cancelled"
    ELSE LastStatusEvent(SubSeq(evts, 1, Len(evts) - 1))

\* The number of Builder/Reviewer cycles made so far
Cycles == Cardinality({i \in DOMAIN trace : trace[i] = "builder"})

\* Every Reviewer call so far returned a high-severity finding
AlwaysHigh == \A i \in DOMAIN trace : trace[i] # "reviewer:pass"

\* A checkpoint has seen the control cancelled
ObservedCancel ==
    \E i \in DOMAIN trace :
        trace[i] \in {"cancelled:first", "cancelled:command", "cancelled:retry"}

\* C1: when the run has returned, the status in run-log.json is 'cancelled' if
\* and only if cancel() was called before the run decided its final status,
\* and it is 'completed' otherwise.
C1_StatusCancelledIffCancelled ==
    Returned =>
        /\ FileStatus \in {"cancelled", "completed"}
        /\ FileStatus = "cancelled" <=> cancelled_at = "before_status"

\* C2: when the run has returned, the last run.completed / run.cancelled event
\* of events.jsonl denotes the status written to run-log.json.
C2_LastEventMatchesStatus ==
    Returned =>
        /\ LastStatusEvent(events) = FileStatus
        /\ events[Len(events)].type \in {"run.completed", "run.cancelled"}

C2_Witness ==
    /\ Returned
    /\ FileStatus = "cancelled"
    /\ "finalize" \in Range(trace)
    /\ LastStatusEvent(events) = "cancelled"

\* C3: a frontend_feature run never makes more than 1 + maxIterations
\* Builder/Reviewer cycles and the iteration counter never exceeds
\* maxIterations; a run that has returned without the control being cancelled
\* and whose Reviewer returned a high-severity finding every time made exactly
\* 1 + maxIterations cycles, and its last Review, as written to
\* architecture-review.json, still has the high-severity finding.
C3_BoundedRetries ==
    /\ Cycles <= 1 + max_iterations
    /\ iterations <= max_iterations
    /\ (Returned /\ workflow = "frontend_feature" /\ ~cancelled /\ AlwaysHigh) =>
          /\ Cycles = 1 + max_iterations
          /\ iterations = max_iterations
          /\ any_high(review)
          /\ run_dir["architecture-review.json"] = review

C3_Witness ==
    /\ Returned
    /\ workflow = "frontend_feature"
    /\ ~cancelled
    /\ AlwaysHigh
    /\ max_iterations = 2
    /\ Cycles = 3

\* The convergence loop ended with the budget used up and findings left
Exhausted ==
    /\ workflow = "frontend_feature"
    /\ pc \in {"finalize", "status", "final_event", "done", "raised"}
    /\ "builder" \in Range(trace)
    /\ "cancelled:retry" \notin Range(trace)
    /\ any_high(review)

FinalArtifacts ==
    {"architecture-review.json", "changes.patch", "run-log.json", "final-summary.md"}

\* C4: once the retry budget is used up with high-severity findings left the
\* run does not raise; when it has returned and the control was never
\* cancelled, run-log.json has status 'completed', all finalization artifacts
\* are written, the run ends with run.completed and the persisted Review still
\* has the high-severity findings.
C4_ExhaustionIsNotAnError ==
    Exhausted =>
        /\ pc # "raised"
        /\ iterations = max_iterations
        /\ (Returned /\ ~cancelled) =>
              /\ FileStatus = "completed"
              /\ run_log.status = "completed"
              /\ FinalArtifacts \subseteq DOMAIN run_dir
              /\ any_high(run_dir["architecture-review.json"])
              /\ run_dir["final-summary.md"].resolved_high = "no"
              /\ LastStatusEvent(events) = "completed"

C4_Witness ==
    /\ Exhausted
    /\ Returned
    /\ ~cancelled
    /\ max_iterations = 2
    /\ iterations = 2

\* The events of a step that does work: context gathering, a command, the
\* Planner, the Builder or the Reviewer
WorkEvents(evts) ==
    {i \in DOMAIN evts :
        \/ evts[i].type \in {"tool.call", "agent.step"}
        \/ evts[i].type = "agent.status" /\ evts[i].data.status # "Idle"}

\* C5: a first checkpoint that finds the control cancelled ends the run at
\* once with status 'cancelled' in run-log.json: the run has returned, no
\* context gathering, Planner, command, Builder or Reviewer step was taken, and
\* the event log has no event of such a step.
C5_CancelledAtFirstCheckpoint ==
    [][(pc = "check" /\ ckpt = "first" /\ cancelled /\ pc' # pc) =>
          /\ pc' = "done"
          /\ run_dir'["run-log.json"].status = "cancelled"
          /\ trace' = <<"start", "cancelled:first">>
          /\ WorkEvents(events') = {}
          /\ events'[Len(events')].type = "run.cancelled"
          /\ run_log'.toolCalls = <<>>]_vars

C5_Witness ==
    /\ Returned
    /\ trace = <<"start", "cancelled:first">>
    /\ FileStatus = "cancelled"

\* C6: a run in which a checkpoint has seen the control cancelled does not
\* raise and returns with status 'cancelled'; every run that has returned with
\* status 'cancelled' has run-log.json with that status, final-summary.md and
\* a non-empty events.jsonl.
C6_CancelledRunWritesArtifacts ==
    /\ ObservedCancel => pc # "raised"
    /\ (Returned /\ (ObservedCancel \/ run_log.status = "cancelled")) =>
          /\ "run-log.json" \in DOMAIN run_dir
          /\ FileStatus = "cancelled"
          /\ "final-summary.md" \in DOMAIN run_dir
          /\ events # <<>>
          /\ EventsLog \in DOMAIN files
          /\ files[EventsLog] # <<>>

C6_Witness ==
    /\ Returned
    /\ "cancelled:retry" \in Range(trace)
    /\ FileStatus = "cancelled"

\* C7: a run_command call whose executable is missing, whose process exits
\* nonzero or whose command is not allowlisted returns a CommandResult and
\* does not raise, and the run goes on.
C7_CommandOutcomesAreData ==
    (call.op = "run_command" /\ call.raised \in {"", "FileNotFoundError"}) =>
        /\ call.raised = ""
        /\ Len(call.result) = 1
        /\ pc # "raised"

\* C9: the baseline is the workspace as it was at run start: a run that has
\* finalized without any included workspace file changing has a baseline equal
\* to the workspace, reports no changed file and has written an empty
\* changes.patch.
C9_BaselineAtRunStart ==
    (Returned /\ "changes.patch" \in DOMAIN run_dir
       /\ touched \cap {SrcAppPy, LibBPy} = {}) =>
        /\ baseline = _snapshot(files)
        /\ run_dir["changes.patch"] = <<>>
        /\ run_dir["final-summary.md"].changed_files = <<>>

(***************************************************************************)
(* Properties of the adapter                                               *)
(***************************************************************************)
\* The executable a command names, <<>> where it names none
ExecutableOf(command) ==
    IF command = FmtFix THEN Fmt
    ELSE IF command = UsrBinRm THEN <<"r", "m">>
    ELSE <<>>

\* The commands that have words
WellFormed(command) == command \in {Blank, FmtFix, UsrBinRm}

Allowed(command) == allowlist = <<>> \/ ExecutableOf(command) \in Range(allowlist)

\* C8: run_command calls subprocess.run only for a non-empty command that the
\* allowlist admits (the allowlist is empty or has the executable name); for an
\* empty command, and for a command whose executable a non-empty allowlist
\* does not have, it returns skipped=true without calling subprocess.run.
C8_SpawnOnlyIfAllowed ==
    call.op = "run_command" =>
        /\ call.spawn => (call.command \notin {None, <<>>} /\ Allowed(call.command))
        /\ call.command \in {None, <<>>} =>
              (~call.spawn /\ call.raised = "" /\ call.result[1].skipped)
        /\ (WellFormed(call.command) /\ ~Allowed(call.command)) =>
              (~call.spawn /\ call.raised = "" /\ call.result[1].skipped)

C8_Witness ==
    /\ call.op = "run_command"
    /\ call.command = UsrBinRm
    /\ allowlist = <<Fmt>>
    /\ call.result[1].skipped
    /\ ~call.spawn

\* The paths of the workspace that the include and exclude globs admit
IncludedPaths == {SrcAppPy, LibBPy}

\* The bytes at a path, <<>> for no file and <<bytes>> for a file
BytesAt(fs, p) == IF p \in DOMAIN fs THEN <<fs[p]>> ELSE <<>>

StrictlySorted(seq) == \A i \in 1..(Len(seq) - 1) : StrLess(seq[i], seq[i + 1])

\* C10: with a baseline captured and no included file written or removed
\* since, diff() returns empty text and changed_files() an empty list; and
\* changed_files() always returns, sorted and without repetition, the
\* included paths of baseline or workspace whose hash is not the one of the
\* baseline (added, removed or modified).
C10_DiffAgainstBaseline ==
    /\ (call.op = "diff" /\ captured /\ touched \cap IncludedPaths = {}) =>
          call.result = <<>>
    /\ call.op = "changed_files" =>
          /\ (captured /\ touched \cap IncludedPaths = {}) => call.result = <<>>
          /\ StrictlySorted(call.result)
          /\ Range(call.result) =
               {p \in IncludedPaths :
                  IF p \in DOMAIN baseline
                    THEN BytesAt(files, p) = <<>> \/ sha256(files[p]) # baseline[p].hash
                    ELSE BytesAt(files, p) # <<>>}

C10_Witness ==
    /\ call.op = "changed_files"
    /\ captured
    /\ baseline # <<>>
    /\ EventsLog \in touched
    /\ touched \cap IncludedPaths = {}
    /\ call.result = <<>>

(***************************************************************************)
(* Properties of initialize_project                                        *)
(***************************************************************************)
\* The project names whose target lies outside every working root reached
EscapingNames == {DotDotEsc, AppUpUpEsc, SlashEtc, DotDotW2}

\* C11: a call of initialize_project with a name whose target lies outside the
\* working root raises the path-escape error (ValueError) and changes
\* nothing: no directory is made, the working root is not re-pointed, and the
\* baseline and the workspace files stay as they were.
C11_EscapeChangesNothing ==
    [][(call'.op = "initialize_project" /\ call'.project_name \in EscapingNames) =>
          /\ call'.raised = "ValueError"
          /\ dirs' = dirs
          /\ workspace_path' = workspace_path
          /\ baseline' = baseline
          /\ files' = files]_vars

C11_Witness ==
    /\ call.op = "initialize_project"
    /\ call.project_name = DotDotW2
    /\ call.raised = "ValueError"
    /\ workspace_path = Root \o <<App>>
    /\ baseline # <<>>
    /\ baseline # _snapshot(files)

(***************************************************************************)
(* Properties of the call of run                                           *)
(***************************************************************************)
\* The requests the workspace-mode checks are about, on a workspace without
\* the repository marker .git
InvalidRequest ==
    /\ request # <<>>
    /\ \/ request[1].workspace_mode = "existing-git"
       \/ request[1].workspace_mode = "new-project"
            /\ request[1].project_name \in {None, DotDotEsc}

\* C12: a run requested in existing-git mode on a path without the repository
\* marker, or in new-project mode without a project name or with a project
\* name outside the root, ends with the workspace-mode error (ValueError)
\* raised by run, with no run directory, no event and no artifact written.
C12_ModeErrorsBeforeSideEffects ==
    (InvalidRequest /\ pc # "start") =>
        /\ pc = "raised"
        /\ trace = <<"raised:ValueError">>
        /\ run_dir = <<>>
        /\ events = <<>>
        /\ EventsLog \notin DOMAIN files

(***************************************************************************)
(* Properties of the status                                                *)
(***************************************************************************)
Terminal == {"completed", "cancelled"}

\* The statuses written to run-log.json so far: a terminal status is followed
\* by nothing but itself
WritesMonotonic ==
    /\ \A i \in DOMAIN writes : writes[i] \in {"running"} \cup Terminal
    /\ \A i \in DOMAIN writes : \A j \in DOMAIN writes :
          (i < j /\ writes[i] \in Terminal) => writes[j] = writes[i]

\* C13: the status of the in-memory run log only moves from 'running' to
\* 'completed' or from 'running' to 'cancelled' and a terminal status stays;
\* in the sequence of statuses written to run-log.json a terminal status is
\* never followed by 'running' or by the other terminal status, and the file
\* never holds a terminal status that the in-memory log does not have.
C13_StatusMonotonic ==
    /\ [](WritesMonotonic
          /\ (writes # <<>> /\ writes[Len(writes)] \in Terminal =>
                run_log.status = writes[Len(writes)]))
    /\ [][/\ run_log.status \in Terminal => run_log'.status = run_log.status
          /\ run_log.status = "running" =>
                run_log'.status \in {"running"} \cup Terminal]_vars

C13_Witness ==
    /\ Returned
    /\ writes = <<"running", "cancelled">>
    /\ run_log.status = "cancelled"
    /\ FileStatus = "cancelled"

(***************************************************************************)
(* Properties of the event log                                             *)
(***************************************************************************)
\* The event _emit_event builds for its i-th call
EventOf(i) ==
    Event("command", "tool.call", "info", _redact(Str(emitted[i].message)).v, "",
          _redact(data_or_empty(emitted[i].data)))

IsPrefix(a, b) == Len(a) <= Len(b) /\ SubSeq(b, 1, Len(a)) = a

\* C14: events.jsonl holds one event per _emit_event call, in the order of the
\* calls, whether or not a subscriber is attached; the events handed to the
\* subscriber are at every moment a prefix of events.jsonl; the subscriber is
\* handed an event only in a step that leaves events.jsonl alone, and the
\* event is the next one of the file.
C14_PersistedBeforeForwarded ==
    /\ [](/\ Len(events) = Len(emitted)
          /\ \A i \in DOMAIN events : events[i] = EventOf(i)
          /\ IsPrefix(delivered, events)
          /\ IF events = <<>> THEN EventsLog \notin DOMAIN files
                ELSE Len(files[EventsLog]) = Len(events)
          /\ (epc = "idle" /\ event_sink) => delivered = events
          /\ ~event_sink => delivered = <<>>)
    /\ [][delivered' # delivered =>
            /\ events' = events
            /\ Len(delivered) < Len(events)
            /\ delivered' = Append(delivered, events[Len(delivered) + 1])]_vars

C14_Witness ==
    /\ event_sink
    /\ epc = "written"
    /\ Len(events) = 3
    /\ Len(delivered) = 2
    /\ events[1] # events[2]

\* A secret-shaped token starts at index i of text: ghp_ or sk- followed by
\* 20 letters or digits, or AKIA followed by 16 capital letters or digits
SecretAt(text, i) ==
    \/ /\ StartsWith(text, i, <<"g", "h", "p", "_">>)
       /\ \A k \in 0..19 :
             i + 4 + k <= Len(text) /\ text[i + 4 + k] \in Upper \cup Lower \cup Digits
    \/ /\ StartsWith(text, i, <<"s", "k", "-">>)
       /\ \A k \in 0..19 :
             i + 3 + k <= Len(text) /\ text[i + 3 + k] \in Upper \cup Lower \cup Digits
    \/ /\ StartsWith(text, i, <<"A", "K", "I", "A">>)
       /\ \A k \in 0..15 :
             i + 4 + k <= Len(text) /\ text[i + 4 + k] \in Upper \cup Digits

HasSecret(text) == \E i \in 1..Len(text) : SecretAt(text, i)

\* A str with a secret-shaped token lies somewhere in the value
RECURSIVE Leaks(_)
Leaks(value) ==
    IF value.t = "str" THEN HasSecret(value.v)
    ELSE IF value.t \in {"list", "dict"}
      THEN \E k \in DOMAIN value.v : Leaks(value.v[k])
    ELSE FALSE

\* C16: no event of events.jsonl and no event handed to the subscriber has a
\* secret-shaped token in its message or in a str of its data, however deep
\* in lists and dicts; and where the message passed to _emit_event had such a
\* token between other words, the event has the marker ***REDACTED*** in its
\* place and the other words as they were.
C16_NoSecretInEvents ==
    /\ \A i \in DOMAIN events :
          /\ ~HasSecret(events[i].message)
          /\ ~Leaks(events[i].data)
          /\ emitted[i].message = GhpText =>
                events[i].message = <<"t", " ">> \o Redacted \o <<" ", "x">>
    /\ \A i \in DOMAIN delivered :
          ~HasSecret(delivered[i].message) /\ ~Leaks(delivered[i].data)

C16_Witness ==
    /\ delivered # <<>>
    /\ HasSecret(emitted[1].message)
    /\ Len(emitted) >= 2
    /\ emitted[2].data # <<>>
    /\ "items" \in DOMAIN emitted[2].data[1].v
    /\ Leaks(emitted[2].data[1])
    /\ emitted[2].data[1].v.items.v[3].v[1] = Str(GhpToken)
    /\ events[2].data.v.items.v[3].v[1] = Str(Redacted)
    /\ events[2].data.v.items.v[1] = Str(Redacted \o <<"Z">>)

(***************************************************************************)
(* Properties of the artifacts                                             *)
(***************************************************************************)
\* C15: every run that has returned has written architecture-review.json
\* (with the last Review, where one was made), changes.patch, run-log.json and
\* final-summary.md, in both workflows and on every return path.
C15_AllArtifactsOnReturn ==
    Returned =>
        /\ FinalArtifacts \subseteq DOMAIN run_dir
        /\ review # <<>> => run_dir["architecture-review.json"] = review

(***************************************************************************)
(* Properties of the run directories                                       *)
(***************************************************************************)
\* C17: two calls of run on one workspace never have the same run directory:
\* every events.jsonl has the lines of one run only, and the run-log.json of
\* a run that has written it is still the one this run wrote.
C17_RunsHaveOwnDirectory ==
    /\ \A r1 \in Runs : \A r2 \in Runs :
          (r1 # r2 /\ runs[r1].pc # "idle" /\ runs[r2].pc # "idle") =>
              runs[r1].run_dir # runs[r2].run_dir
    /\ \A name \in DOMAIN runs_disk :
          \A i \in DOMAIN runs_disk[name].events :
             runs_disk[name].events[i].run = runs_disk[name].events[1].run
    /\ \A r \in Runs :
          runs[r].pc \in {"logged", "done"} =>
              runs_disk[runs[r].run_dir[1]].run_log[1].run = r

(***************************************************************************)
(* Properties of RunControl                                                *)
(***************************************************************************)
\* C18: once cancel() has been called the cancelled flag is set and stays
\* set, and every is_cancelled() that returns afterwards returns true, under
\* every interleaving of toggle_pause, cancel, is_cancelled and wait_if_paused
\* of two threads; no step that changes the paused flag changes the cancelled
\* flag, and no step that changes the cancelled flag changes the paused flag.
C18_CancelOneWay ==
    /\ [](cancelled_at # "never" => cancelled)
    /\ [][/\ cancelled => cancelled'
          /\ cancelled' # cancelled => paused' = paused
          /\ paused' # paused => cancelled' = cancelled
          /\ \A t \in Threads :
                (cancelled_at # "never"
                   /\ threads'[t].is_cancelled # threads[t].is_cancelled) =>
                    threads'[t].is_cancelled = <<TRUE>>]_vars

C18_Witness ==
    /\ cancelled
    /\ paused
    /\ threads["monitor"].pc = "toggle_clear"
    /\ threads["run"].is_cancelled = <<TRUE>>

\* The run thread is inside wait_if_paused
Waiting == pc \in {"wait", "wait_cancelled"}

\* C19: wait_if_paused returns only in a step that reads the paused flag
\* clear or the cancelled flag set; and over every step that starts and ends
\* with the control paused and not cancelled a run thread inside
\* wait_if_paused stays inside it: no step of the run is recorded, no event
\* emitted, no file of the run directory written and no adapter call made.
C19_PausedRunWaits ==
    [][/\ (Waiting /\ pc' = "check") =>
             \/ pc = "wait" /\ ~paused
             \/ pc = "wait_cancelled" /\ cancelled
       /\ (Waiting /\ pc' # pc) => pc' \in {"wait", "wait_cancelled", "check"}
       /\ (Waiting /\ paused /\ ~cancelled /\ paused' /\ ~cancelled') =>
             /\ pc' \in {"wait", "wait_cancelled"}
             /\ trace' = trace
             /\ events' = events
             /\ run_dir' = run_dir
             /\ call' = call
             /\ files' = files]_vars

C19_Witness ==
    /\ pc = "wait_cancelled"
    /\ ckpt = "command"
    /\ key = 2
    /\ paused
    /\ ~cancelled
    /\ trace[Len(trace)] = "command:format"

(***************************************************************************)
(* Properties of RunRequest.validate                                       *)
(***************************************************************************)
\* The three cases in which validation is said to fail (None counts as empty)
MissingSlot(r) ==
    \/ r.workspaceMode = NewProject /\ r.projectName \in {None, <<>>}
    \/ r.taskPrompt \in {None, <<>>}
    \/ r.workspacePath \in {None, <<>>}

\* C20: validate raises if and only if workspaceMode is new-project and
\* projectName is empty or unset, or taskPrompt is empty, or workspacePath is
\* empty; it returns for every other RunRequest.
C20_ValidateIffMissingSlot ==
    validation # "" => (validation # "ok" <=> MissingSlot(run_request[1]))

\* C20, amended: validate raises if and only if workspaceMode is empty or
\* unset, or workspaceMode is new-project and projectName is empty or unset,
\* or taskPrompt is empty, or workspacePath is empty; it returns for every
\* other RunRequest.
C20_ValidateIffMissingField ==
    validation # "" =>
        (validation # "ok" <=>
            (run_request[1].workspaceMode \in {None, <<>>}
               \/ MissingSlot(run_request[1])))

C20_Witness ==
    /\ run_request # <<>>
    /\ run_request[1].workspaceMode = <<>>
    /\ run_request[1].workspacePath = <<"/", "w">>
    /\ run_request[1].taskPrompt = <<"D", "o">>
    /\ validation = "workspaceMode is required."

(***************************************************************************)
(* Properties of the ConversationController                                *)
(***************************************************************************)
\* The slot holds a value that is neither None nor empty
Filled(k) == k \in DOMAIN slots /\ slots[k] # None /\ slots[k] # <<>>

\* The slots a run cannot do without, in the order they are asked for
RequiredSlots ==
    IF "workspaceMode" \in DOMAIN slots /\ slots["workspaceMode"] = NewProject
      THEN <<"taskPrompt", "workspacePath", "projectName">>
      ELSE <<"taskPrompt", "workspacePath">>

MissingRequired == {i \in 1..Len(RequiredSlots) : ~Filled(RequiredSlots[i])}

\* The slot a clarification question asks for
AsksFor(question) ==
    IF question = "What would you like the agents to do? Please describe the task."
      THEN "taskPrompt"
    ELSE IF question = "What should the new project be called?" THEN "projectName"
    ELSE "workspacePath"

\* C21: after any sequence of messages the turn process_message returns is
\* complete exactly when no required slot (taskPrompt, workspacePath, and
\* projectName in new-project mode) is missing, and an incomplete turn carries
\* the question for the first missing slot in that order
C21_CompleteIffNothingMissing ==
    reply # <<>> =>
        /\ reply[1].complete <=> MissingRequired = {}
        /\ ~reply[1].complete =>
            /\ "question" \in DOMAIN reply[1].response
            /\ \E i \in MissingRequired :
                /\ \A j \in MissingRequired : i <= j
                /\ AsksFor(reply[1].response.question) = RequiredSlots[i]

\* A task without a path: the turn is incomplete and asks for the path
C21_Witness ==
    /\ user_text = <<<<"A", "d", "d">>, <<"l", "o", "g", "i", "n">>>>
    /\ reply # <<>>
    /\ ~reply[1].complete
    /\ Filled("taskPrompt")
    /\ reply[1].response
         = [question |-> "Which folder should I use? Please provide a path (e.g. ./my-project or /absolute/path)."]

\* The slot an error message of validate names
NamedField(error) ==
    IF error = "taskPrompt is required." THEN "taskPrompt"
    ELSE IF error = "workspacePath is required." THEN "workspacePath"
    ELSE IF error = "projectName is required for new-project mode." THEN "projectName"
    ELSE "workspaceMode"

\* C22: build_run_request returns a RunRequest only when taskPrompt and
\* workspacePath are filled and, in new-project mode, projectName is; in every
\* other state of the slots it fails with an error that names a missing field
C22_BuildValidatesSlots ==
    built # <<>> =>
        /\ built[1].validation = "ok" <=> MissingRequired = {}
        /\ built[1].validation # "ok" =>
            \E i \in MissingRequired : NamedField(built[1].validation) = RequiredSlots[i]

\* C23: whenever process_message has returned a complete turn, the
\* build_run_request that follows at once returns a request that passes
\* validation, carries the taskPrompt, workspacePath, workspaceMode and
\* projectName of the slots, and has the default safety
\* {writeScopeRoot: workspacePath, initGit: mode == new-project} where no
\* safety slot is set
C23_CompleteTurnBuilds ==
    (built # <<>> /\ reply # <<>> /\ reply[1].complete) =>
        /\ built[1].validation = "ok"
        /\ validate(built[1].request) = "ok"
        /\ {"taskPrompt", "workspacePath", "workspaceMode"} \subseteq DOMAIN slots
        /\ built[1].request.taskPrompt = slots["taskPrompt"]
        /\ built[1].request.workspacePath = slots["workspacePath"]
        /\ built[1].request.workspaceMode = slots["workspaceMode"]
        /\ built[1].request.projectName
             = (IF "projectName" \in DOMAIN slots THEN slots["projectName"] ELSE None)
        /\ "safety" \notin DOMAIN slots =>
             built[1].request.safety
               = [writeScopeRoot |-> slots["workspacePath"],
                  initGit |-> slots["workspaceMode"] = NewProject]

\* A complete turn for a new project, built without a safety slot
C23_Witness ==
    /\ built # <<>>
    /\ reply # <<>>
    /\ reply[1].complete
    /\ "safety" \notin DOMAIN slots
    /\ built[1].validation = "ok"
    /\ built[1].request.workspaceMode = NewProject
    /\ built[1].request.projectName = <<"D", "e", "m", "o">>
    /\ built[1].request.safety.initGit

\* The slots that hold a value: the text slots that are neither None nor
\* empty and each model override
FilledSlots(s) ==
    {k \in DOMAIN s \cap {"taskPrompt", "workspacePath", "workspaceMode", "projectName",
                         "workflow"} : s[k] # None /\ s[k] # <<>>}
    \cup (IF "modelOverrides" \in DOMAIN s THEN DOMAIN s["modelOverrides"] ELSE {})

\* C24: over any sequence of process_message calls a slot that has been
\* filled is never removed or emptied by a later message: the set of filled
\* slots only grows
C24_FilledSlotsOnlyGrow ==
    [][history' # history => FilledSlots(slots) \subseteq FilledSlots(slots')]_vars

\* The inline command of the message sets the path: the field of the match
\* of _SET_CMD_RE mentions workspace, path or folder
SetsPath(msg) ==
    /\ _SET_CMD_RE(msg) # <<>>
    /\ \E kw \in {<<"w", "o", "r", "k", "s", "p", "a", "c", "e">>, <<"p", "a", "t", "h">>, <<"f", "o", "l", "d", "e", "r">>} :
           Contains(_SET_CMD_RE(msg)[1].field_text, kw)

ReviewerSteps == {"reviewer:high", "reviewer:pass"}

CommandSteps == {"command:format", "command:lint", "command:test"}

\* The number of steps of the kinds in the trace
Count(kinds) == Cardinality({i \in DOMAIN trace : trace[i] \in kinds})

\* C25: an arch_review_only run that is not cancelled at the first checkpoint
\* goes from context gathering to exactly one Reviewer call and then to
\* finalization, with no Planner call, no Builder call and no command, and
\* ends with the status 'completed'
C25_ReviewOnlyShortCircuit ==
    (workflow = "arch_review_only" /\ Returned /\ "cancelled:first" \notin Range(trace)) =>
        /\ Len(trace) = 4
        /\ trace[1] = "start"
        /\ trace[2] = "context_gather"
        /\ trace[3] \in ReviewerSteps
        /\ trace[4] = "finalize"
        /\ Count({"planner", "builder"} \cup CommandSteps) = 0
        /\ plan = <<>> /\ build_result = <<>> /\ checks = <<>>
        /\ call.op = "__init__"
        /\ \A i \in DOMAIN run_log.toolCalls : run_log.toolCalls[i].type # "command"
        /\ run_log.status = "completed"
        /\ FileStatus = "completed"

\* A review-only run has returned after a review with a high-severity finding
C25_Witness ==
    /\ workflow = "arch_review_only"
    /\ Returned
    /\ trace = <<"start", "context_gather", "reviewer:high", "finalize">>
    /\ any_high(review)
    /\ FileStatus = "completed"

CancelledSteps == {"cancelled:first", "cancelled:command", "cancelled:retry"}

\* The positions where the run thread is about to start a role call or a command
InCall == pc \in {"gather", "arch_review", "plan", "command", "build", "retry"}

\* Nothing follows a cancelled return at a command checkpoint, and no Builder
\* or Reviewer call follows a retry checkpoint that saw the cancellation
NothingAfterCancel ==
    \A i \in DOMAIN trace :
        /\ trace[i] = "cancelled:command" => i = Len(trace)
        /\ trace[i] = "cancelled:retry" =>
             \A j \in (i + 1)..Len(trace) : trace[j] \notin {"builder"} \cup ReviewerSteps

\* C26: cancellation takes effect at the next checkpoint and nowhere else.  A
\* checkpoint before a command that finds the control cancelled returns at
\* once, so that command, the later commands, the Builder and the Reviewer are
\* never run; a checkpoint before a retry that finds it cancelled is followed
\* by no Builder or Reviewer call; a command or role call that is about to run
\* runs to its end whether or not cancel has been requested
C26_CancelOnlyAtCheckpoints ==
    /\ []NothingAfterCancel
    /\ [][/\ (pc = "check" /\ ckpt = "command" /\ cancelled /\ pc' # pc) =>
               /\ pc' = "done"
               /\ trace' = Append(trace, "cancelled:command")
               /\ checks' = checks
               /\ build_result' = <<>> /\ review' = <<>>
          /\ (pc = "check" /\ ckpt = "retry" /\ cancelled /\ pc' # pc) =>
               /\ pc' = "finalize"
               /\ trace' = Append(trace, "cancelled:retry")
               /\ build_result' = build_result /\ review' = review
          /\ (InCall /\ pc' # pc /\ pc' # "raised") =>
               /\ Len(trace') > Len(trace)
               /\ SubSeq(trace', 1, Len(trace)) = trace
               /\ \A i \in (Len(trace) + 1)..Len(trace') : trace'[i] \notin CancelledSteps
         ]_vars

\* The run was cancelled while the format command ran: the command is
\* recorded and the checkpoint before lint returns
C26_Witness ==
    /\ Returned
    /\ trace = <<"start", "context_gather", "planner", "command:format",
                 "cancelled:command">>
    /\ Len(checks) = 1
    /\ build_result = <<>>
    /\ FileStatus = "cancelled"

\* The steps of the kinds in the trace, in order
RECURSIVE StepsOf(_, _)
StepsOf(kinds, i) ==
    IF i > Len(trace) THEN <<>>
    ELSE IF trace[i] \in kinds THEN <<trace[i]>> \o StepsOf(kinds, i + 1)
    ELSE StepsOf(kinds, i + 1)

\* i is before every step of the kinds
Before(i, kinds) == \A j \in DOMAIN trace : trace[j] \in kinds => i < j

FixedOrder ==
    /\ Count({"planner"}) <= 1
    /\ \/ Count({"planner"}) = 1
       \/ Count(CommandSteps \cup ReviewerSteps \cup {"builder", "finalize"}) = 0
    /\ \A i \in DOMAIN trace : trace[i] = "planner" => Before(i, CommandSteps \cup {"builder"})
    /\ IsPrefix(StepsOf(CommandSteps, 1),
                <<"command:format", "command:lint", "command:test">>)
    /\ \A i \in DOMAIN trace :
         trace[i] = "command:test" => Before(i, {"builder"} \cup ReviewerSteps)
    /\ Count({"builder"}) > 0 => Count({"command:test"}) = 1
    /\ \A i \in DOMAIN trace :
         trace[i] = "builder" => (i < Len(trace) /\ trace[i + 1] \in ReviewerSteps)
    /\ \A i \in DOMAIN trace :
         trace[i] \in ReviewerSteps => (i > 1 /\ trace[i - 1] = "builder")

\* C27: in a frontend_feature run the Planner is called exactly once, then
\* the commands are processed in the order format, lint, test, each at most
\* once, then comes the first Builder call; every Builder call is followed
\* at once by a Reviewer call, and every Builder call is given the one Plan
C27_FixedStepOrder ==
    /\ [](workflow = "frontend_feature" => FixedOrder)
    /\ [][workflow = "frontend_feature" =>
            /\ (plan # <<>> => plan' = plan)
            /\ (pc \in {"build", "retry"} /\ pc' # pc) =>
                 /\ plan # <<>>
                 /\ build_result'.filesTouched = plan.filesToTouch
         ]_vars

\* A run with one retry has returned
C27_Witness ==
    /\ workflow = "frontend_feature"
    /\ Returned
    /\ trace = <<"start", "context_gather", "planner", "command:format",
                 "command:lint", "command:test", "builder", "reviewer:high",
                 "builder", "reviewer:pass", "finalize">>
    /\ iterations = 1


(***************************************************************************)
(* Properties of the final summary                                         *)
(***************************************************************************)

\* The run has returned with a persisted Review
ReviewedRun == Returned /\ "architecture-review.json" \in DOMAIN run_dir

\* final-summary.md says that high-severity findings remain exactly when
\* the persisted Review has one
SummaryTellsHighRemain ==
    ReviewedRun =>
        (run_dir["final-summary.md"].resolved_high = "no"
           <=> any_high(run_dir["architecture-review.json"]))

\* C28: the final summary reports that high-severity findings remain
\* exactly when the last Review has a finding of severity 'high', and its
\* count of unresolved items is non-zero exactly when such findings remain
C28_SummaryReflectsLastReview ==
    ReviewedRun =>
        /\ run_dir["final-summary.md"].resolved_high = "no"
             <=> any_high(run_dir["architecture-review.json"])
        /\ run_dir["final-summary.md"].unresolved_count # 0
             <=> any_high(run_dir["architecture-review.json"])


(***************************************************************************)
(* Properties of the baseline                                              *)
(***************************************************************************)

\* The calls that only read the workspace and the baseline
ReadingCalls == {"list_files", "diff", "changed_files", "run_command", "metadata"}

\* C29: the baseline is changed only by capture_baseline() and by an
\* initialize_project() that does not raise; list_files(), diff(),
\* changed_files(), run_command() and metadata() leave it as it is, so
\* diff() and changed_files() return the same result when they are called
\* again with the workspace unchanged
C29_BaselineFrame ==
    /\ [](call.op = "diff" => call.result = diff(baseline, files))
    /\ [](call.op = "changed_files" => call.result = changed_files(baseline, files))
    /\ [][/\ baseline' # baseline =>
               \/ call'.op = "capture_baseline"
               \/ call'.op = "initialize_project" /\ call'.raised = ""
          /\ call'.op \in ReadingCalls =>
               /\ baseline' = baseline
               /\ files' = files =>
                    /\ diff(baseline', files') = diff(baseline, files)
                    /\ changed_files(baseline', files') = changed_files(baseline, files)
          /\ (call'.op = "initialize_project" /\ call'.raised # "") =>
               baseline' = baseline
         ]_vars

\* diff() is called with a captured baseline that the workspace has left
C29_Witness ==
    /\ call.op = "diff"
    /\ captured
    /\ baseline # <<>>
    /\ call.result # <<>>


(***************************************************************************)
(* Properties of the rules of _parse_message                               *)
(***************************************************************************)

\* The message is a command: the set/change command that _parse_message
\* carries out and returns from, an inline edit or a model override
IsCommand(msg) ==
    \/ InlineCommand(<<>>, msg).done
    \/ _INLINE_EDIT_RE(msg)
    \/ _USE_MODEL_RE(msg) # <<>>

\* C31: with taskPrompt set, an inline-edit or model-override command leaves
\* taskPrompt as it is and every other message replaces it by the whole
\* message; with taskPrompt unset, the message without its path tokens
\* becomes the taskPrompt, and only where that remainder is not empty
C31_TaskPromptRule ==
    [][history' # history =>
          IF "taskPrompt" \in DOMAIN slots
            THEN /\ "taskPrompt" \in DOMAIN slots'
                 /\ slots'["taskPrompt"] =
                      IF IsCommand(user_text') THEN slots["taskPrompt"]
                      ELSE JoinWords(user_text')
          ELSE /\ "taskPrompt" \in DOMAIN slots' =>
                    /\ strip(_PATH_RE_sub(user_text')) # <<>>
                    /\ slots'["taskPrompt"] = strip(_PATH_RE_sub(user_text'))
               /\ (~InlineCommand(<<>>, user_text').done
                     /\ strip(_PATH_RE_sub(user_text')) # <<>>) =>
                    "taskPrompt" \in DOMAIN slots'
      ]_vars

\* "Add login in /w" as the second message, after a first one that set the
\* task: the task is the whole message, the path token included
C31_Witness ==
    /\ history = 4
    /\ user_text = <<<<"A", "d", "d">>, <<"l", "o", "g", "i", "n">>, <<"i", "n">>, <<"/", "w">>>>
    /\ "taskPrompt" \in DOMAIN slots
    /\ slots["taskPrompt"] = <<"A", "d", "d", " ", "l", "o", "g", "i", "n", " ", "i", "n", " ", "/", "w">>

\* The message has the word w1 followed by the word w2, in any case
HasPhrase(msg, w1, w2) ==
    \E i \in 1..(Len(msg) - 1) : lower(msg[i]) = w1 /\ lower(msg[i + 1]) = w2

\* The message has an "architecture review" or "arch review" phrase
HasArchReview(msg) ==
    HasPhrase(msg, <<"a", "r", "c", "h", "i", "t", "e", "c", "t", "u", "r", "e">>, <<"r", "e", "v", "i", "e", "w">>) \/ HasPhrase(msg, <<"a", "r", "c", "h">>, <<"r", "e", "v", "i", "e", "w">>)

\* The inline command of the message sets the workflow
SetsWorkflow(msg) ==
    /\ _SET_CMD_RE(msg) # <<>>
    /\ InlineCommand(<<>>, msg).done
    /\ "workflow" \in DOMAIN InlineCommand(<<>>, msg).slots

\* The workflow slot after a message, where the phrases that stand for
\* arch_review_only are given by IsReview
WorkflowInference(IsReview(_)) ==
    history' # history =>
          IF SetsWorkflow(user_text')
            THEN /\ "workflow" \in DOMAIN slots'
                 /\ slots'["workflow"] = _SET_CMD_RE(user_text')[1].value
          ELSE IF "workflow" \in DOMAIN slots
            THEN "workflow" \in DOMAIN slots' /\ slots'["workflow"] = slots["workflow"]
          ELSE IF InlineCommand(<<>>, user_text').done
            THEN "workflow" \notin DOMAIN slots'
          ELSE /\ "workflow" \in DOMAIN slots'
               /\ slots'["workflow"] =
                    IF IsReview(user_text') THEN ArchReviewOnly ELSE FrontendFeature

\* C32 as stated: the first message that reaches the inference rule sets
\* the workflow to arch_review_only if it has an architecture/arch review
\* phrase and to frontend_feature otherwise, and a set workflow is changed
\* by an explicit set/change workflow command only
C32_WorkflowInference == [][WorkflowInference(HasArchReview)]_vars

IsReviewPhrase(msg) == HasArchReview(msg) \/ HasPhrase(msg, <<"r", "e", "v", "i", "e", "w">>, <<"o", "n", "l", "y">>)

\* C32 amended: a "review only" phrase stands for arch_review_only as well
C32_WorkflowInferenceAmended == [][WorkflowInference(IsReviewPhrase)]_vars

\* "Add login" after a message that set the workflow to arch_review_only
C32_Witness ==
    /\ history = 4
    /\ user_text = <<<<"A", "d", "d">>, <<"l", "o", "g", "i", "n">>>>
    /\ "workflow" \in DOMAIN slots
    /\ slots["workflow"] = ArchReviewOnly
    /\ slots["taskPrompt"] = <<"A", "d", "d", " ", "l", "o", "g", "i", "n">>

\* The slot is in the slots before and after the step, with the same value,
\* or in neither
SlotKept(k) ==
    /\ k \in DOMAIN slots <=> k \in DOMAIN slots'
    /\ k \in DOMAIN slots => slots'[k] = slots[k]

\* C33: the first path-shaped token of a message sets workspacePath only
\* where it is unset, and then workspaceMode is inferred only where it is
\* unset; a filled workspacePath is changed by an explicit set/change
\* workspace command only
C33_PathDetectionKeepsPath ==
    [][(history' # history /\ ~SetsPath(user_text')) =>
          IF Filled("workspacePath") \/ InlineCommand(<<>>, user_text').done
               \/ _extract_path(user_text') = None
            THEN /\ SlotKept("workspacePath")
                 /\ _NEW_PROJECT_RE(user_text') \/ SlotKept("workspaceMode")
          ELSE /\ "workspacePath" \in DOMAIN slots'
               /\ slots'["workspacePath"] = resolved_str(_extract_path(user_text'))
               /\ "workspaceMode" \in DOMAIN slots'
               /\ slots'["workspaceMode"] =
                    IF _NEW_PROJECT_RE(user_text') THEN NewProject
                    ELSE IF "workspaceMode" \in DOMAIN slots THEN slots["workspaceMode"]
                    ELSE _detect_workspace_mode(slots'["workspacePath"])
      ]_vars

\* "Add login in /w" with the path /g filled before: the path stays /g
C33_Witness ==
    /\ history = 4
    /\ user_text = <<<<"A", "d", "d">>, <<"l", "o", "g", "i", "n">>, <<"i", "n">>, <<"/", "w">>>>
    /\ "workspacePath" \in DOMAIN slots
    /\ slots["workspacePath"] = <<"/", "g">>
    /\ slots["workspaceMode"] = ExistingGit

\* What a message with the new-project phrase does to the mode and the name
NewProjectStep ==
    /\ "workspaceMode" \in DOMAIN slots'
    /\ slots'["workspaceMode"] = NewProject
    /\ IF _extract_project_name(user_text') # None
         THEN /\ "projectName" \in DOMAIN slots'
              /\ slots'["projectName"] = _extract_project_name(user_text')
         ELSE SlotKept("projectName")

\* In new-project mode a turn is complete only with a project name
NewProjectNeedsName ==
    (/\ reply # <<>>
     /\ reply[1].complete
     /\ "workspaceMode" \in DOMAIN slots
     /\ slots["workspaceMode"] = NewProject) => Filled("projectName")

\* No message takes the dialogue out of new-project mode
NewProjectStays ==
    (/\ history' # history
     /\ "workspaceMode" \in DOMAIN slots
     /\ slots["workspaceMode"] = NewProject)
    => ("workspaceMode" \in DOMAIN slots' /\ slots'["workspaceMode"] = NewProject)

\* C34 as stated: any message with the new-project phrase sets workspaceMode
\* to new-project and sets projectName exactly when it has a called/named X
\* phrase; from then on a turn is complete only once projectName is filled
C34_NewProjectIntent ==
    /\ []NewProjectNeedsName
    /\ [][/\ NewProjectStays
          /\ (history' # history /\ _NEW_PROJECT_RE(user_text')) => NewProjectStep
         ]_vars

\* C34 amended: the message is not one that is carried out as an inline
\* set/change command
C34_NewProjectIntentAmended ==
    /\ []NewProjectNeedsName
    /\ [][/\ NewProjectStays
          /\ (/\ history' # history
              /\ _NEW_PROJECT_RE(user_text')
              /\ ~InlineCommand(<<>>, user_text').done) => NewProjectStep
         ]_vars

\* The message of the scenario as the first message
C34_Witness ==
    /\ history = 2
    /\ user_text = <<<<"C", "r", "e", "a", "t", "e">>, <<"a">>, <<"n", "e", "w">>, <<"R", "e", "a", "c", "t">>, <<"a", "p", "p">>, <<"c", "a", "l", "l", "e", "d">>, <<"C", "l", "a", "i", "m", "s", "P", "o", "r", "t", "a", "l">>, <<"a", "n", "d">>, <<"a", "d", "d">>, <<"a">>, <<"l", "o", "g", "i", "n">>, <<"p", "a", "g", "e", ".">>>>
    /\ DOMAIN slots = {"workflow", "workspaceMode", "projectName", "taskPrompt"}
    /\ slots["workspaceMode"] = NewProject
    /\ slots["projectName"] = <<"C", "l", "a", "i", "m", "s", "P", "o", "r", "t", "a", "l">>
    /\ slots["taskPrompt"] = <<"C", "r", "e", "a", "t", "e", " ", "a", " ", "n", "e", "w", " ", "R", "e", "a", "c", "t", " ", "a", "p", "p", " ", "c", "a", "l", "l", "e", "d", " ", "C", "l", "a", "i", "m", "s", "P", "o", "r", "t", "a", "l", " ", "a", "n", "d", " ", "a", "d", "d", " ", "a", " ", "l", "o", "g", "i", "n", " ", "p", "a", "g", "e", ".">>
    /\ ~reply[1].complete

\* The controller has a task and has just asked for the workspace path
AskedForPath ==
    /\ Filled("taskPrompt")
    /\ reply # <<>>
    /\ ~reply[1].complete
    /\ AsksFor(reply[1].response.question) = "workspacePath"

\* The message is one path token and nothing else
OnlyPath(msg) == Len(msg) = 1 /\ PathLength(msg[1]) = Len(msg[1]) /\ msg[1] # <<>>

\* C35: where an earlier message filled taskPrompt and the controller asked
\* for the workspace path, a reply that is only a path token fills
\* workspacePath and leaves taskPrompt the task given earlier, and the turn is
\* complete
C35_PathReplyKeepsTask ==
    [][(history' # history /\ AskedForPath /\ OnlyPath(user_text')) =>
          /\ "workspacePath" \in DOMAIN slots'
          /\ slots'["workspacePath"] = resolved_str(user_text'[1])
          /\ slots'["taskPrompt"] = slots["taskPrompt"]
          /\ reply'[1].complete
      ]_vars

\* The path is filled by the reply and the task is the reply itself
PathReplyIsTask ==
    [][(history' # history /\ AskedForPath /\ OnlyPath(user_text')) =>
          /\ "workspacePath" \in DOMAIN slots'
          /\ slots'["workspacePath"] = resolved_str(user_text'[1])
          /\ slots'["taskPrompt"] = user_text'[1]
      ]_vars


(***************************************************************************)
(* Properties of the last events of a run                                  *)
(***************************************************************************)

\* The status a Cancelled/Completed agent.status event stands for
AgentStatus(event) == IF event.data.status = "Cancelled" THEN "cancelled" ELSE "completed"

\* A frontend_feature run has returned through its finalization
Finalized ==
    /\ workflow = "frontend_feature"
    /\ Returned
    /\ Count({"finalize"}) = 1

\* C36: however cancel() falls between the steps of the finalization of a
\* frontend_feature run, the status of the last architecture agent.status
\* event agrees with the status of the run log and of run-log.json and with
\* the run.completed / run.cancelled event that ends the run
C36_FinalEventsAgree ==
    Finalized =>
        /\ events[Len(events) - 1].type = "agent.status"
        /\ events[Len(events) - 1].agentRole = "architecture"
        /\ AgentStatus(events[Len(events) - 1]) = run_log.status
        /\ FileStatus = run_log.status
        /\ LastStatusEvent(events) = run_log.status

\* The run log, run-log.json and the run event agree with one another
RunLogAndRunEventAgree ==
    Finalized =>
        /\ FileStatus = run_log.status
        /\ LastStatusEvent(events) = run_log.status
        /\ events[Len(events)].type = run_event_type(run_log.status)


(***************************************************************************)
(* Properties of the monitor                                               *)
(***************************************************************************)

DisplayedThenQueued == displayed \o event_queue = [i \in 1..forwarded |-> i]


(***************************************************************************)
(* Termination of the run                                                  *)
(***************************************************************************)

\* run has returned with a final status
Ended == Returned /\ run_log.status \in {"completed", "cancelled"}

\* The run thread is inside wait_if_paused with the control paused
Blocked == pc \in {"wait", "wait_cancelled"} /\ paused

\* A blocked run that is cancelled is released and ends cancelled
CancelReleases ==
    (Blocked /\ cancelled) ~> (Returned /\ run_log.status = "cancelled")

\* C38 as stated: if whenever the run is paused the pause is later cleared
\* or cancel is requested, then the run ends with status completed or
\* cancelled, unless a call raises; a run blocked in wait_if_paused that is
\* cancelled is released and ends with status cancelled
C38_RunTerminates ==
    /\ [](paused => <>(~paused \/ cancelled)) => <>(Ended \/ pc = "raised")
    /\ CancelReleases

\* C38 amended: the pause is cleared for good at some time, or cancel is
\* requested
C38_RunTerminatesAmended ==
    /\ []<>paused \/ <>(Ended \/ pc = "raised")
    /\ cancelled ~> (Ended \/ pc = "raised")
    /\ CancelReleases

\* The run thread is inside the loop of wait_if_paused, paused, and cancel
\* has been called
C38_Witness ==
    /\ pc = "wait_cancelled"
    /\ paused
    /\ cancelled
    /\ ckpt = "retry"

====
